---------------------------- MODULE Spec2Model ----------------------------
(***************************************************************************)
(* Verification model of the RAG backend of youngouk/ragjs.                *)
(*                                                                         *)
(*  - Chat route (apps/backend/src/routes/chat.ts): the in-memory session  *)
(*    Map, the POST / pipeline with its two awaited calls, the history     *)
(*    query, explicit session create/delete and the expiry sweep.          *)
(*  - DocumentProcessor.splitTextIntoChunks: the chunker loop.             *)
(*                                                                         *)
(* The Node.js event loop runs one handler segment at a time; a handler    *)
(* only yields at an await that really performs I/O.  Every action below   *)
(* is one such run-to-completion segment.                                  *)
(***************************************************************************)
EXTENDS Integers, Sequences, FiniteSets, TLC

(***************************************************************************)
(* Bounds of the model.                                                    *)
(***************************************************************************)
MaxConcurrent == 2      \* chat invocations that may be in flight together
MaxRequests   == 2      \* chat requests accepted over a behaviour
SeqRequests   == 8      \* the same, when requests never overlap
MaxObjects    == 2      \* session objects ever allocated
MaxTicks      == 13     \* clock horizon, in sweep intervals
MaxTextLen    == 6      \* chunker: longest text
MaxChunkSize  == 5      \* chunker: largest chunkSize
MaxTexts      == 6      \* createEmbeddingBatch: most texts in a call
MaxItems      == 5      \* BatchQueue: items added to the queue
MaxBatchSize  == 3      \* BatchQueue: largest batchSize
MaxInvocations == 4     \* debounce: invocations in a burst
DebounceDelay == 2      \* debounce: the delay, in ticks
MaxKeys       == 4      \* memoize: distinct argument keys
MaxCacheSize  == 2      \* memoize: largest maxSize
MaxCalls      == 6      \* memoize: calls of the memoized function
MaxJobs       == 2      \* upload: files uploaded

(***************************************************************************)
(* Program constants.                                                      *)
(***************************************************************************)
MaxMessageLength == 4000      \* chat.ts:25
HistoryCap       == 10        \* chat.ts:95
ContextWindow    == 6         \* chat.ts:253
maxAge           == 3600000   \* chat.ts:333
SweepInterval    == 300000    \* chat.ts:346
MaxBatchTexts    == 100       \* part_001:112
EmbedBatchSize   == 5         \* part_001:122

VARIABLES
    sessions,            \* chat.ts:12  Map<string, ConversationSession>: id -> object ref
    heap,                \* the ConversationSession objects, by reference (index)
    inv,                 \* the chat invocations (POST /): position and locals
    issued,              \* uuids handed out by uuidv4()
    now,                 \* Date.now(), ms since process start
    sweepDue,            \* the setInterval callback is due
    nreq,                \* number of chat requests received so far
    vectorAvailable,     \* vectorService.isAvailable()
    availableProviders,  \* generationService.availableProviders
    res,                 \* the HTTP response written by the latest step, if any
    appended,            \* history: per object, every message ever pushed
    fate,                \* history: per object, "live" or how it left the store
    completed,           \* history: per session id, the chat requests answered
                         \*          since that id was last removed from the store
    text, chunkSize, overlap, start, chunks, windows, splitPc,  \* chunker
    vsInitialized,       \* VectorService: isInitialized && client !== null
    vsStartup,           \* position of VectorService.initialize, or how it ended
    vsCollection,        \* vector size of the 'documents' collection, 0: none
    vsPoints,            \* the points of the Qdrant collection, by id
    vsCall,              \* the VectorService call in flight, if any
    vsOut,               \* how the latest VectorService call ended
    ebCall,              \* the createEmbeddingBatch call in flight, if any
    ebEmbeddings,        \* its local `embeddings`
    ebOut,               \* how the latest createEmbeddingBatch call ended
    ebHist,              \* history: requests issued, fulfilled, failed in it
    gsProviders,         \* GenerationService.availableProviders
    gsCall,              \* the generateResponse / healthCheck call in flight
    gsOut,               \* how the latest call of the service ended
    gsLogged,            \* context of the latest logger.logError of the service
    gsAttempts,          \* history: providers invoked by the current generateResponse
    gsProbes,            \* history: the probes of the current healthCheck
    bqBatchSize,         \* BatchQueue.batchSize
    bqQueue,             \* BatchQueue.queue
    bqProcessing,        \* BatchQueue.processing
    bqPc,                \* position of the process() call under way
    bqAdded,             \* number of add calls so far
    bqPassed,            \* history: the batches passed to processFn
    dbTimeoutId,         \* useState timeoutId: the value set last
    dbRendered,          \* timeoutId as the function the caller holds sees it
    dbTimers,            \* the pending timers
    dbNow,               \* time, in ticks
    dbInvoked,           \* history: time of each invocation
    dbCalls,             \* history: the runs of the wrapped callback
    mcMaxSize,           \* memoize: maxSize
    mcCache,             \* memoize: the keys of cache, in insertion order
    mcCalls,             \* number of calls of the memoized function so far
    mcInsertedAt,        \* history: per key, the call that inserted it last
    mcLast,              \* history: the latest call, whether it ran fn, what it evicted
    upStore,             \* chat.ts:409 processingJobs: the job ids it maps
    upJob,               \* the job objects, by job id
    upTask,              \* position of processFileAsync, by job id
    upStored,            \* history: the chunks of the job are in the vector index
    upDeleted,           \* history: the jobs removed by a delete route
    ptServer,            \* the prompts active on the server
    ptView,              \* the active prompts of the page's `prompts` state
    ptCall,              \* the handleToggleActive call in flight
    ptDone               \* how the latest handleToggleActive ended

chatVars  == <<sessions, heap, inv, res, issued, now, sweepDue, nreq,
               vectorAvailable, availableProviders, appended, fate, completed>>
splitVars == <<text, chunkSize, overlap, start, chunks, windows, splitPc>>
vectorVars == <<vsInitialized, vsStartup, vsCollection, vsPoints, vsCall, vsOut>>
embedVars  == <<ebCall, ebEmbeddings, ebOut, ebHist>>
genVars    == <<gsProviders, gsCall, gsOut, gsLogged, gsAttempts, gsProbes>>
batchVars == <<bqBatchSize, bqQueue, bqProcessing, bqPc, bqAdded, bqPassed>>
debounceVars == <<dbTimeoutId, dbRendered, dbTimers, dbNow, dbInvoked, dbCalls>>
memoVars == <<mcMaxSize, mcCache, mcCalls, mcInsertedAt, mcLast>>
uploadVars == <<upStore, upJob, upTask, upStored, upDeleted>>
promptVars == <<ptServer, ptView, ptCall, ptDone>>
vars      == <<chatVars, splitVars, vectorVars, embedVars, genVars, batchVars, debounceVars, memoVars, uploadVars, promptVars>>

\* What the steps of one part of the program leave alone.
nonChatVars   == <<splitVars, vectorVars, embedVars, genVars, batchVars, debounceVars, memoVars, uploadVars, promptVars>>
nonSplitVars  == <<chatVars, vectorVars, embedVars, genVars, batchVars, debounceVars, memoVars, uploadVars, promptVars>>
nonVectorVars == <<chatVars, splitVars, embedVars, genVars, batchVars, debounceVars, memoVars, uploadVars, promptVars>>
nonEmbedVars  == <<chatVars, splitVars, vectorVars, genVars, batchVars, debounceVars, memoVars, uploadVars, promptVars>>
nonGenVars    == <<chatVars, splitVars, vectorVars, embedVars, batchVars, debounceVars, memoVars, uploadVars, promptVars>>
nonBatchVars == <<chatVars, splitVars, vectorVars, embedVars, genVars, debounceVars, memoVars, uploadVars, promptVars>>
nonDebounceVars == <<chatVars, splitVars, vectorVars, embedVars, genVars, batchVars, memoVars, uploadVars, promptVars>>
nonMemoVars == <<chatVars, splitVars, vectorVars, embedVars, genVars, batchVars, debounceVars, uploadVars, promptVars>>
nonUploadVars == <<chatVars, splitVars, vectorVars, embedVars, genVars, batchVars, debounceVars, memoVars, promptVars>>
nonPromptVars == <<chatVars, splitVars, vectorVars, embedVars, genVars, batchVars, debounceVars, memoVars, uploadVars>>

(***************************************************************************)
(* Strings of the chat route.  A message text is kept run-length encoded   *)
(* (a sequence of runs of one character) so that the 4000-character limit  *)
(* is reached with the real constant.                                      *)
(***************************************************************************)
Run(c, n) == [ch |-> c, n |-> n]

RECURSIVE TextLength(_)
TextLength(runs) ==
    IF runs = <<>> THEN 0 ELSE Head(runs).n + TextLength(Tail(runs))

IsWhitespace(c) == c \in {" ", "\n", "\t"}

RECURSIVE TrimStart(_)
TrimStart(runs) ==
    IF runs = <<>> THEN <<>>
    ELSE IF IsWhitespace(Head(runs).ch) \/ Head(runs).n = 0 THEN TrimStart(Tail(runs))
    ELSE runs

RECURSIVE TrimEnd(_)
TrimEnd(runs) ==
    IF runs = <<>> THEN <<>>
    ELSE IF IsWhitespace(runs[Len(runs)].ch) \/ runs[Len(runs)].n = 0
         THEN TrimEnd(SubSeq(runs, 1, Len(runs) - 1))
    ELSE runs

Trim(runs) == TrimEnd(TrimStart(runs))

\* A JavaScript value that is a string or undefined.
JsString(runs) == [defined |-> TRUE, runs |-> runs]
Undefined      == [defined |-> FALSE, runs |-> <<>>]
Falsy(m)       == ~m.defined \/ TextLength(m.runs) = 0

Texts ==
    { <<>>,
      <<Run("\n", 2), Run(" ", 1)>>,
      <<Run(" ", MaxMessageLength + 1)>>,
      <<Run("a", 1)>>,
      <<Run(" ", 1), Run("a", MaxMessageLength - 1)>>,
      <<Run("a", MaxMessageLength + 1)>>,
      <<Run(" ", 2), Run("a", MaxMessageLength - 1)>> }

MessageInputs == {Undefined} \cup { JsString(t) : t \in Texts }

\* Session ids: uuidv4() draws from UuidPool, never the same id twice; a
\* client sends no id or an id it was given (which the store may have
\* dropped since).
UuidPool    == {"u1"}
NoSessionId == ""

Invocations == 1 .. MaxConcurrent


(***************************************************************************)
(* Session objects and the sessions Map.  A session object is referred to  *)
(* by its index in heap: the Map and the handlers' locals hold references, *)
(* so two handlers that looked the id up at different times may hold       *)
(* different objects.                                                      *)
(***************************************************************************)
NoObject == 0

NewSession(sid, t) ==
    [session_id |-> sid, created_at |-> t, last_activity |-> t,
     message_count |-> 0, history |-> <<>>]

SessionsGet(m, sid) == IF sid \in DOMAIN m THEN m[sid] ELSE NoObject

SessionsSet(m, sid, o) == [k \in DOMAIN m \cup {sid} |-> IF k = sid THEN o ELSE m[k]]

SessionsDelete(m, sid) == [k \in DOMAIN m \ {sid} |-> m[k]]

\* Array.prototype.slice(-n)
SliceLast(s, n) == IF Len(s) <= n THEN s ELSE SubSeq(s, Len(s) - n + 1, Len(s))

\* A ChatMessage is identified by its role and the request that made it;
\* content, timestamp and metadata are payload that no step reads back.
UserMessage(r)      == [role |-> "user", req |-> r]
AssistantMessage(r) == [role |-> "assistant", req |-> r]

\* chat.ts:53-55
PushUser(h, o, msg, t) ==
    [h EXCEPT ![o].history = Append(@, msg),
              ![o].last_activity = t,
              ![o].message_count = @ + 1]

\* chat.ts:95-97
LimitHistory(hist) == IF Len(hist) > HistoryCap THEN SliceLast(hist, HistoryCap) ELSE hist

\* chat.ts:91-97
PushAssistant(h, o, msg, t) ==
    [h EXCEPT ![o].history = LimitHistory(Append(@, msg)),
              ![o].last_activity = t]

\* chat.ts:99
StoreSession(m, sid, o) == SessionsSet(m, sid, o)

\* Mutant: the whitespace check of line 20 without its trim().
ValidateMessageNoTrim(m) ==
    IF Falsy(m) THEN "EMPTY_MESSAGE"
    ELSE IF TextLength(m.runs) > MaxMessageLength THEN "MESSAGE_TOO_LONG"
    ELSE "OK"

\* chat.ts:20-28
ValidateMessage(m) ==
    IF Falsy(m) \/ TextLength(Trim(m.runs)) = 0 THEN "EMPTY_MESSAGE"
    ELSE IF TextLength(m.runs) > MaxMessageLength THEN "MESSAGE_TOO_LONG"
    ELSE "OK"

(***************************************************************************)
(* The awaited collaborators.                                              *)
(***************************************************************************)
NoHits == <<>>
SearchOutcomes == {"hits", "empty", "error"}

\* Mutant: performVectorSearch without its catch (lines 242-247).
performVectorSearchNoCatch(how) ==
    [threw |-> how = "error",
     results |-> IF how = "hits" THEN <<"chunk">> ELSE NoHits]

\* chat.ts:215-248.  `how` is "unavailable" when isAvailable() is false and
\* otherwise the way vectorService.search settled; a rejection is logged
\* and becomes the empty list.
performVectorSearch(how) ==
    [threw |-> FALSE,
     results |-> IF how = "hits" THEN <<"chunk">> ELSE NoHits]

\* chat.ts:251-263
prepareContext(history, searchResults) ==
    [conversation_history |-> SliceLast(history, ContextWindow),
     search_results |-> searchResults]

\* chat.ts:285: the system prompt
SystemMessage == [role |-> "system", req |-> 0]

\* chat.ts:284-294: the messages generateResponse(query, context, options)
\* hands to generationService.generateResponse.  A message is identified
\* by the request whose text it carries.
GenerationMessages(query, context) ==
    <<SystemMessage>> \o SliceLast(context.conversation_history, ContextWindow)
                     \o <<UserMessage(query)>>

\* GenerationService.ts:381-394
getDefaultModelForProvider(p) ==
    CASE p = "google"    -> "gemini-2.0-flash-exp"
      [] p = "openai"    -> "gpt-4o"
      [] p = "anthropic" -> "claude-3-5-haiku-20241022"
      [] p = "cohere"    -> "command-r-plus-08-2024"
      [] OTHER           -> "gemini-2.0-flash-exp"

GenOutcomes == {"ok", "error"}

\* chat.ts:320-326
FallbackResponse ==
    [threw |-> FALSE, content |-> "fallback-apology", model |-> "fallback",
     tokens_used |-> 0, provider |-> "system"]

\* Mutant: generateResponse rethrowing from its catch instead of answering
\* with the fallback.
generateResponseRethrow(how) ==
    IF how = "ok"
    THEN [threw |-> FALSE, content |-> "generated",
          model |-> getDefaultModelForProvider(availableProviders[1]),
          tokens_used |-> 1, provider |-> availableProviders[1]]
    ELSE [threw |-> TRUE, content |-> "", model |-> "", tokens_used |-> 0,
          provider |-> ""]

\* chat.ts:266-328.  `how` is "none" when no provider is available (the
\* throw of line 269) and otherwise the way the provider call settled;
\* every failure is caught (line 317) and replaced by the fallback.
generateResponse(how) ==
    IF how = "ok"
    THEN [threw |-> FALSE, content |-> "generated",
          model |-> getDefaultModelForProvider(availableProviders[1]),
          tokens_used |-> 1, provider |-> availableProviders[1]]
    ELSE FallbackResponse

(***************************************************************************)
(* HTTP responses: res is what the latest step wrote to its client.        *)
(***************************************************************************)
NoResponse == [route |-> "none"]

\* chat.ts:122-131
ProcessingError(rec, search, gen) ==
    [route |-> "chat", status |-> 503, code |-> "AI_PROCESSING_ERROR",
     req |-> rec.req, search |-> search, gen |-> gen]

\* chat.ts:111-120
ChatResponse(rec, results, ai, search, gen) ==
    [route |-> "chat", status |-> 200, req |-> rec.req,
     answer |-> ai.content, session_id |-> rec.sessionId, sources |-> results,
     tokens_used |-> ai.tokens_used, model_used |-> ai.model,
     provider |-> ai.provider, search |-> search, gen |-> gen]

IdleInvocation ==
    [pc |-> "idle", req |-> 0, sessionId |-> NoSessionId,
     session |-> NoObject, searchResults |-> NoHits, search |-> "none"]

(***************************************************************************)
(* Initial state of the chat route: module load (chat.ts:12, 346), with    *)
(* the services already initialised one way or the other.                  *)
(***************************************************************************)
AllSessionIds == UuidPool

ProviderLists == { <<>>, <<"google">> }

TickSteps == {maxAge \div SweepInterval, maxAge \div SweepInterval + 1}

ChatInit ==
    /\ sessions = << >>
    /\ heap = << >>
    /\ inv = [i \in Invocations |-> IdleInvocation]
    /\ res = NoResponse
    /\ issued = {}
    /\ now = 0
    /\ sweepDue = FALSE
    /\ nreq = 0
    /\ vectorAvailable \in BOOLEAN
    /\ availableProviders \in ProviderLists
    /\ appended = << >>
    /\ fate = << >>
    /\ completed = [sid \in AllSessionIds |-> {}]

(***************************************************************************)
(* POST / (chat.ts:15-138), cut at its awaits.                             *)
(***************************************************************************)
\* chat.ts:79-120, or the catch of 122-131 when the pipeline threw.
\* h, m, ap: heap, sessions and appended as the handler sees them.
FinishChat(i, rec, h, m, ap, results, search, gen) ==
    LET ai  == generateResponse(gen)
        msg == AssistantMessage(rec.req)
    IN  /\ inv' = [inv EXCEPT ![i] = IdleInvocation]
        /\ IF ai.threw
           THEN /\ heap' = h
                /\ sessions' = m
                /\ appended' = ap
                /\ completed' = completed
                /\ res' = ProcessingError(rec, search, gen)
           ELSE /\ heap' = PushAssistant(h, rec.session, msg, now)
                /\ sessions' = StoreSession(m, rec.sessionId, rec.session)
                /\ appended' = [ap EXCEPT ![rec.session] = Append(@, msg)]
                /\ completed' = [completed EXCEPT ![rec.sessionId] = @ \cup {rec.req}]
                /\ res' = ChatResponse(rec, results, ai, search, gen)

\* chat.ts:68-77 from the point performVectorSearch has settled with sr:
\* the context is prepared and generateResponse is called.  With no
\* provider it throws before any I/O and the handler runs on to its end.
Generate(i, rec, h, m, ap, sr, search) ==
    IF sr.threw
    THEN /\ inv' = [inv EXCEPT ![i] = IdleInvocation]
         /\ heap' = h
         /\ sessions' = m
         /\ appended' = ap
         /\ completed' = completed
         /\ res' = ProcessingError(rec, search, "skipped")
    ELSE IF availableProviders = << >>
    THEN FinishChat(i, rec, h, m, ap, sr.results, search, "none")
    ELSE /\ inv' = [inv EXCEPT ![i] = [rec EXCEPT !.pc = "awaitGenerate",
                                                  !.searchResults = sr.results,
                                                  !.search = search]]
         /\ heap' = h
         /\ sessions' = m
         /\ appended' = ap
         /\ completed' = completed
         /\ res' = NoResponse

\* chat.ts:20-28 on each request body the clients send.
Validation == [m \in MessageInputs |-> ValidateMessage(m)]

\* chat.ts:17-28: a request that fails validation.
ChatReject(body) ==
    /\ Validation[body.message] # "OK"
    /\ res' = [route |-> "chat", status |-> 400, code |-> Validation[body.message]]
    /\ UNCHANGED <<sessions, heap, inv, issued, now, sweepDue, nreq,
                   vectorAvailable, availableProviders, appended, fate, completed>>
    /\ UNCHANGED nonChatVars

\* chat.ts:17-68: a valid request, up to the first await that suspends.
ChatPost(i, body) ==
    /\ inv[i].pc = "idle"
    /\ \A j \in Invocations : j < i => inv[j].pc # "idle"
    /\ Validation[body.message] = "OK"
    /\ \E sid \in (IF body.session_id # NoSessionId
                   THEN {body.session_id} ELSE UuidPool \ issued) :
        LET found == SessionsGet(sessions, sid)
            o     == IF found = NoObject THEN Len(heap) + 1 ELSE found
            h1    == IF found = NoObject THEN Append(heap, NewSession(sid, now)) ELSE heap
            m1    == IF found = NoObject THEN SessionsSet(sessions, sid, o) ELSE sessions
            ap1   == IF found = NoObject THEN Append(appended, << >>) ELSE appended
            msg   == UserMessage(nreq + 1)
            h2    == PushUser(h1, o, msg, now)
            ap2   == [ap1 EXCEPT ![o] = Append(@, msg)]
            rec   == [pc |-> "awaitSearch", req |-> nreq + 1, sessionId |-> sid,
                      session |-> o, searchResults |-> NoHits, search |-> "none"]
        IN  /\ found = NoObject => Len(heap) < MaxObjects
            /\ issued' = IF body.session_id = NoSessionId THEN issued \cup {sid} ELSE issued
            /\ fate' = IF found = NoObject THEN Append(fate, "live") ELSE fate
            /\ IF vectorAvailable
               THEN /\ inv' = [inv EXCEPT ![i] = rec]
                    /\ heap' = h2
                    /\ sessions' = m1
                    /\ appended' = ap2
                    /\ completed' = completed
                    /\ res' = NoResponse
               ELSE Generate(i, rec, h2, m1, ap2,
                             performVectorSearch("unavailable"), "unavailable")
    /\ nreq' = nreq + 1
    /\ UNCHANGED <<now, sweepDue, vectorAvailable, availableProviders>>
    /\ UNCHANGED nonChatVars

\* chat.ts:68 resumes: vectorService.search settled.
SearchReturn(i, outcome) ==
    /\ inv[i].pc = "awaitSearch"
    /\ Generate(i, inv[i], heap, sessions, appended, performVectorSearch(outcome), outcome)
    /\ UNCHANGED <<issued, now, sweepDue, nreq, vectorAvailable, availableProviders, fate>>
    /\ UNCHANGED nonChatVars

\* chat.ts:74 resumes: the provider call settled.
GenerateReturn(i, outcome) ==
    /\ inv[i].pc = "awaitGenerate"
    /\ FinishChat(i, inv[i], heap, sessions, appended,
                  inv[i].searchResults, inv[i].search, outcome)
    /\ UNCHANGED <<issued, now, sweepDue, nreq, vectorAvailable, availableProviders, fate>>
    /\ UNCHANGED nonChatVars

(***************************************************************************)
(* The other routes and the sweep.                                         *)
(***************************************************************************)
\* chat.ts:141-165: the history query changes nothing; this is the response
\* it writes when it runs in the current state.
GetHistory(sid) ==
    IF SessionsGet(sessions, sid) = NoObject
    THEN [status |-> 404, code |-> "SESSION_NOT_FOUND"]
    ELSE [status |-> 200, session_id |-> sid,
          messages |-> heap[sessions[sid]].history,
          message_count |-> heap[sessions[sid]].message_count,
          created_at |-> heap[sessions[sid]].created_at,
          last_activity |-> heap[sessions[sid]].last_activity]

\* chat.ts:168-193
CreateSession ==
    /\ Len(heap) < MaxObjects
    /\ \E sid \in UuidPool \ issued :
        /\ heap' = Append(heap, NewSession(sid, now))
        /\ sessions' = SessionsSet(sessions, sid, Len(heap) + 1)
        /\ issued' = issued \cup {sid}
        /\ res' = NoResponse
    /\ appended' = Append(appended, << >>)
    /\ fate' = Append(fate, "live")
    /\ UNCHANGED <<inv, now, sweepDue, nreq, vectorAvailable, availableProviders, completed>>
    /\ UNCHANGED nonChatVars

\* chat.ts:196-212 (for an unknown id the handler answers 404 and
\* changes nothing)
DeleteSession(sid) ==
    /\ IF sid \in DOMAIN sessions
       THEN /\ sessions' = SessionsDelete(sessions, sid)
            /\ fate' = [fate EXCEPT ![sessions[sid]] = "delete"]
            /\ completed' = [completed EXCEPT ![sid] = {}]
       ELSE UNCHANGED <<sessions, fate, completed>>
    /\ res' = NoResponse
    /\ UNCHANGED <<heap, inv, issued, now, sweepDue, nreq,
                   vectorAvailable, availableProviders, appended>>
    /\ UNCHANGED nonChatVars

\* Mutant: the age taken in seconds and compared with a limit in ms.
ExpiredInSeconds(s, t) == (t - s.last_activity) \div 1000 > maxAge

\* chat.ts:338
Expired(s, t) == t - s.last_activity > maxAge

\* chat.ts:331-343
cleanupExpiredSessions ==
    LET gone == { sid \in DOMAIN sessions : Expired(heap[sessions[sid]], now) }
    IN  /\ sessions' = [sid \in DOMAIN sessions \ gone |-> sessions[sid]]
        /\ fate' = [o \in DOMAIN fate |->
                      IF \E sid \in gone : sessions[sid] = o THEN "sweep" ELSE fate[o]]
        /\ completed' = [sid \in AllSessionIds |->
                           IF sid \in gone THEN {} ELSE completed[sid]]

\* chat.ts:346: the interval timer fires.
Sweep ==
    /\ sweepDue
    /\ sweepDue' = FALSE
    /\ cleanupExpiredSessions
    /\ res' = NoResponse
    /\ UNCHANGED <<heap, inv, issued, now, nreq, vectorAvailable,
                   availableProviders, appended>>
    /\ UNCHANGED nonChatVars

\* Time passes while the event loop is idle, up to a firing of the timer.
\* A step of k intervals stands for k firings in a row: sessions only age
\* in between, so the last firing removes what the earlier ones would.
Tick(k) ==
    /\ ~sweepDue
    /\ now + k * SweepInterval <= MaxTicks * SweepInterval
    /\ now' = now + k * SweepInterval
    /\ sweepDue' = TRUE
    /\ res' = NoResponse
    /\ UNCHANGED <<sessions, heap, inv, issued, nreq, vectorAvailable,
                   availableProviders, appended, fate, completed>>
    /\ UNCHANGED nonChatVars

ChatBodies == [message : MessageInputs, session_id : {NoSessionId} \cup UuidPool]

\* The steps of the chat route.  Clients send at most maxReq valid chat
\* requests; with overlapping = FALSE each waits for the answer to the
\* previous one.
ChatNext(maxReq, overlapping) ==
    \/ \E body \in ChatBodies : ChatReject(body)
    \/ \E i \in Invocations, body \in ChatBodies :
          /\ nreq < maxReq
          /\ overlapping \/ \A j \in Invocations : inv[j].pc = "idle"
          /\ body.session_id \in {NoSessionId} \cup issued
          /\ ChatPost(i, body)
    \/ \E i \in Invocations, outcome \in SearchOutcomes : SearchReturn(i, outcome)
    \/ \E i \in Invocations, outcome \in GenOutcomes : GenerateReturn(i, outcome)
    \/ CreateSession
    \/ \E sid \in AllSessionIds : DeleteSession(sid)
    \/ Sweep
    \/ \E k \in TickSteps : Tick(k)

(***************************************************************************)
(* DocumentProcessor.splitTextIntoChunks (part_002:337-369).  A text is a  *)
(* sequence of characters; positions are 0-based as in the source.         *)
(***************************************************************************)
\* A word character, the three cut characters of lines 349-351, and a
\* whitespace character that is not a cut character.
Alphabet == {"a", " ", "\n", ".", "\t"}

CharAt(t, p) == t[p + 1]

\* String.prototype.slice(from, to) for 0 <= from <= to <= length
Slice(t, from, to) == SubSeq(t, from + 1, to)

\* String.prototype.lastIndexOf(c, fromIndex): the search starts AT fromIndex
LastIndexOf(t, c, fromIndex) ==
    LET hits == { p \in 0 .. (Len(t) - 1) : p <= fromIndex /\ CharAt(t, p) = c }
    IN  IF hits = {} THEN -1 ELSE CHOOSE p \in hits : \A q \in hits : q <= p

RECURSIVE TrimLeft(_)
TrimLeft(t) ==
    IF t # << >> /\ IsWhitespace(Head(t)) THEN TrimLeft(Tail(t)) ELSE t

RECURSIVE TrimRight(_)
TrimRight(t) ==
    IF t # << >> /\ IsWhitespace(t[Len(t)])
    THEN TrimRight(SubSeq(t, 1, Len(t) - 1)) ELSE t

\* String.prototype.trim()
TrimChars(t) == TrimRight(TrimLeft(t))

Max(a, b) == IF a >= b THEN a ELSE b
Min(a, b) == IF a <= b THEN a ELSE b

Max3(a, b, c) == Max(a, Max(b, c))

\* part_002:346-358: the end of the window that starts at st
WindowEnd(t, st, size) ==
    LET end          == Min(st + size, Len(t))
        bestCutPoint == Max3(LastIndexOf(t, " ", end), LastIndexOf(t, "\n", end),
                             LastIndexOf(t, ".", end))
    IN  IF end < Len(t) /\ 2 * bestCutPoint > 2 * st + size   \* > start + chunkSize * 0.5
        THEN bestCutPoint + 1
        ELSE end

\* Mutant: the next window starts `overlap` before the end of this one.
NextStartFromEnd(st, end, size, ov) == end - ov

\* part_002:365
NextStart(st, end, size, ov) == Max(st + size - ov, end)

RECURSIVE SeqsUpTo(_)
SeqsUpTo(n) ==
    IF n = 0 THEN { << >> }
    ELSE LET shorter == SeqsUpTo(n - 1)
         IN  shorter \cup { Append(t, c) : t \in { u \in shorter : Len(u) = n - 1 },
                                           c \in Alphabet }

\* The preconditions of split: non-empty text, 0 <= overlap < chunkSize.
SplitInit ==
    /\ text \in SeqsUpTo(MaxTextLen) \ { << >> }
    /\ chunkSize \in 1 .. MaxChunkSize
    /\ overlap \in 0 .. (chunkSize - 1)
    /\ start = 0
    /\ chunks = << >>
    /\ windows = << >>
    /\ splitPc = "entry"

\* part_002:338-343
SplitEnter ==
    /\ splitPc = "entry"
    /\ IF Len(text) <= chunkSize
       THEN /\ chunks' = << text >>
            /\ windows' = << [from |-> 0, to |-> Len(text)] >>
            /\ splitPc' = "done"
       ELSE /\ splitPc' = "loop"
            /\ UNCHANGED <<chunks, windows>>
    /\ UNCHANGED <<text, chunkSize, overlap, start>>
    /\ UNCHANGED nonSplitVars

\* part_002:345-366: one iteration of the while loop
SplitStep ==
    /\ splitPc = "loop"
    /\ start < Len(text)
    /\ LET end   == WindowEnd(text, start, chunkSize)
           chunk == TrimChars(Slice(text, start, end))
       IN  /\ chunks' = IF Len(chunk) > 0 THEN Append(chunks, chunk) ELSE chunks
           /\ windows' = Append(windows, [from |-> start, to |-> end])
           /\ start' = NextStart(start, end, chunkSize, overlap)
    /\ UNCHANGED <<text, chunkSize, overlap, splitPc>>
    /\ UNCHANGED nonSplitVars

\* part_002:345, 368: the loop condition fails and chunks is returned
SplitReturn ==
    /\ splitPc = "loop"
    /\ start >= Len(text)
    /\ splitPc' = "done"
    /\ UNCHANGED <<text, chunkSize, overlap, start, chunks, windows>>
    /\ UNCHANGED nonSplitVars

SplitNext == SplitEnter \/ SplitStep \/ SplitReturn

\* The chunker at rest, while the chat route is explored.
SplitIdle ==
    /\ text = << >>
    /\ chunkSize = 1
    /\ overlap = 0
    /\ start = 0
    /\ chunks = << >>
    /\ windows = << >>
    /\ splitPc = "idle"

\* The chat route at rest, while the chunker is explored.
ChatIdle ==
    /\ ChatInit
    /\ ~vectorAvailable
    /\ availableProviders = << >>

(***************************************************************************)
(* VectorService (part_001:250-610): the gateway to the Qdrant collection. *)
(* Every method is cut at its awaited calls; the awaited embedding and     *)
(* client calls settle with "ok" or "error".                               *)
(***************************************************************************)
DocumentIds == {"d1", "d2"}

\* part_002:377-379  generateChunkId
ChunkIdsOf(d) == IF d = "d1" THEN {"d1_chunk_000", "d1_chunk_001"} ELSE {"d2_chunk_000"}

AllChunkIds == UNION { ChunkIdsOf(d) : d \in DocumentIds }

\* payload.document_id of the point with id c
DocumentOf(c) == CHOOSE d \in DocumentIds : c \in ChunkIdsOf(d)

CallOutcomes == {"ok", "error"}

Queries == {"", "q"}

VsIdle == [op |-> "none", pc |-> "idle", arg |-> {}]

NoOutcome == [op |-> "none"]

\* The call ended by returning value; failed tells which awaited call, if
\* any, had settled with an error.
VsReturned(op, value, failed) ==
    [op |-> op, kind |-> "returned", value |-> value, failed |-> failed]

\* The call ended by throwing an Error with this message.
VsThrew(op, message, failed) ==
    [op |-> op, kind |-> "threw", value |-> message, failed |-> failed]

\* The failure swallowed: the empty result list is returned.
SearchFailedEmpty(failed) == VsReturned("search", {}, failed)

\* part_001:463-472: the catch of search logs the error and throws
\* new Error(`Vector search failed: ...`).
SearchFailed(failed) == VsThrew("search", "Vector search failed", failed)

\* Similarity scores and thresholds, in tenths.
Scores == {-2, 0, 6, 7, 9}

\* options.threshold of a search call: the empty set when the caller gives
\* none, else the set of the one number given.
Thresholds == { {}, {-1}, {0}, {5}, {8} }

\* part_001:415: the default of options.threshold, 0.7
DefaultThreshold == 7

\* The threshold of the caller ignored.
ScoreThresholdDefault(supplied) == DefaultThreshold

\* part_001:415 and 427: score_threshold = options.threshold || 0.7, where
\* undefined and 0 are falsy.
ScoreThreshold(supplied) ==
    IF supplied = {} \/ supplied = {0} THEN DefaultThreshold
    ELSE CHOOSE t \in supplied : TRUE

\* What client.search answers for score_threshold t when the points of the
\* collection score as in `score`: the points that score at least t.
ClientSearch(score, t) ==
    { [id |-> c, score |-> score[c]] : c \in { d \in DOMAIN score : score[d] >= t } }

\* part_001:438-461: search returns the hits, mapped to SearchResult.
SearchReturned(hits, supplied) ==
    [op |-> "search", kind |-> "returned", value |-> hits, failed |-> "none",
     threshold |-> supplied]

\* part_001:178 and 310: the dimension of the embedder, and the vector
\* size of the collection ensureCollection creates.
EmbeddingDimension == 768

\* The vector size of the 'documents' collection the index holds when the
\* service starts: 0 when there is none.
CollectionSizes == {0, 768, 1536}

\* The exported instance is being constructed (part_001:255-257, 612):
\* initialize has not run yet.
VectorInit ==
    /\ vsInitialized = FALSE
    /\ vsStartup = "constructing"
    /\ vsCollection \in CollectionSizes
    /\ vsPoints = {}
    /\ vsCall = VsIdle
    /\ vsOut = NoOutcome

\* part_001:266-279: initialize up to the await of ensureCollection, which
\* runs up to its await of getCollections (294-301).  Without a configured
\* url the service stays uninitialized.
VsInitialize(urlConfigured) ==
    /\ vsStartup = "constructing"
    /\ vsStartup' = IF urlConfigured THEN "awaitGetCollections" ELSE "memory store"
    /\ UNCHANGED <<vsInitialized, vsCollection, vsPoints, vsCall, vsOut>>
    /\ UNCHANGED nonVectorVars

\* part_001:301-327 resumes: getCollections settled.  An existing
\* collection is accepted as it is (323-327) and initialize completes
\* (281-285); an error is rethrown (328-331) and caught by initialize
\* (287-290).
VsGetCollectionsReturn(outcome) ==
    /\ vsStartup = "awaitGetCollections"
    /\ IF outcome = "error"
       THEN /\ vsStartup' = "failed"
            /\ vsInitialized' = FALSE
       ELSE IF vsCollection # 0
       THEN /\ vsStartup' = "collection exists"
            /\ vsInitialized' = TRUE
       ELSE /\ vsStartup' = "awaitCreateCollection"
            /\ UNCHANGED vsInitialized
    /\ UNCHANGED <<vsCollection, vsPoints, vsCall, vsOut>>
    /\ UNCHANGED nonVectorVars

\* part_001:307-322 resumes: createCollection settled.
VsCreateCollectionReturn(outcome) ==
    /\ vsStartup = "awaitCreateCollection"
    /\ vsStartup' = IF outcome = "ok" THEN "collection created" ELSE "failed"
    /\ IF outcome = "ok"
       THEN /\ vsCollection' = EmbeddingDimension
            /\ vsInitialized' = TRUE
       ELSE /\ vsInitialized' = FALSE
            /\ UNCHANGED vsCollection
    /\ UNCHANGED <<vsPoints, vsCall, vsOut>>
    /\ UNCHANGED nonVectorVars

\* part_001:335-349: addDocuments up to its first await.  The chunks of a
\* call fit in one batch of 100 (line 350).
VsAddDocuments(cs) ==
    /\ vsCall.pc = "idle"
    /\ IF ~vsInitialized
       THEN /\ vsOut' = VsThrew("addDocuments", "Vector service is not initialized", "none")
            /\ UNCHANGED vsCall
       ELSE IF cs = {}
       THEN /\ vsOut' = VsThrew("addDocuments", "No document chunks provided", "none")
            /\ UNCHANGED vsCall
       ELSE /\ vsCall' = [op |-> "addDocuments", pc |-> "awaitEmbeddingBatch", arg |-> cs]
            /\ vsOut' = NoOutcome
    /\ UNCHANGED <<vsInitialized, vsPoints>>
    /\ UNCHANGED <<vsStartup, vsCollection>>
    /\ UNCHANGED nonVectorVars

\* part_001:360 resumes: createEmbeddingBatch settled.
VsEmbeddingBatchReturn(outcome) ==
    /\ vsCall.pc = "awaitEmbeddingBatch"
    /\ IF outcome = "ok"
       THEN /\ vsCall' = [vsCall EXCEPT !.pc = "awaitUpsert"]
            /\ UNCHANGED vsOut
       ELSE /\ vsCall' = VsIdle
            /\ vsOut' = VsThrew("addDocuments", "Failed to add documents", "embedding")
    /\ UNCHANGED <<vsInitialized, vsPoints>>
    /\ UNCHANGED <<vsStartup, vsCollection>>
    /\ UNCHANGED nonVectorVars

\* part_001:374-400 resumes: client.upsert settled.
VsUpsertReturn(outcome) ==
    /\ vsCall.pc = "awaitUpsert"
    /\ vsCall' = VsIdle
    /\ IF outcome = "ok"
       THEN /\ vsPoints' = vsPoints \cup vsCall.arg
            /\ vsOut' = VsReturned("addDocuments", Cardinality(vsCall.arg), "none")
       ELSE /\ vsOut' = VsThrew("addDocuments", "Failed to add documents", "client")
            /\ UNCHANGED vsPoints
    /\ UNCHANGED vsInitialized
    /\ UNCHANGED <<vsStartup, vsCollection>>
    /\ UNCHANGED nonVectorVars

\* part_001:403-417: search up to its first await.
VsSearch(query, supplied) ==
    /\ vsCall.pc = "idle"
    /\ IF ~vsInitialized
       THEN /\ vsOut' = VsThrew("search", "Vector service is not initialized", "none")
            /\ UNCHANGED vsCall
       ELSE IF query = ""
       THEN /\ vsOut' = VsThrew("search", "Search query is required", "none")
            /\ UNCHANGED vsCall
       ELSE /\ vsCall' = [op |-> "search", pc |-> "awaitQueryEmbedding", arg |-> supplied]
            /\ vsOut' = NoOutcome
    /\ UNCHANGED <<vsInitialized, vsPoints>>
    /\ UNCHANGED <<vsStartup, vsCollection>>
    /\ UNCHANGED nonVectorVars

\* part_001:421 resumes: createEmbedding settled.
VsQueryEmbeddingReturn(outcome) ==
    /\ vsCall.pc = "awaitQueryEmbedding"
    /\ IF outcome = "ok"
       THEN /\ vsCall' = [vsCall EXCEPT !.pc = "awaitSearch"]
            /\ UNCHANGED vsOut
       ELSE /\ vsCall' = VsIdle
            /\ vsOut' = SearchFailed("embedding")
    /\ UNCHANGED <<vsInitialized, vsPoints>>
    /\ UNCHANGED <<vsStartup, vsCollection>>
    /\ UNCHANGED nonVectorVars

\* part_001:435-472 resumes: client.search settled, with the points it
\* found at or above the score threshold as hits.
VsClientSearchReturn(outcome, score) ==
    /\ vsCall.pc = "awaitSearch"
    /\ vsCall' = VsIdle
    /\ vsOut' = IF outcome = "ok"
                THEN SearchReturned(ClientSearch(score, ScoreThreshold(vsCall.arg)),
                                    vsCall.arg)
                ELSE SearchFailed("client")
    /\ UNCHANGED <<vsInitialized, vsPoints>>
    /\ UNCHANGED <<vsStartup, vsCollection>>
    /\ UNCHANGED nonVectorVars

\* part_001:475-491: deleteDocument up to its await.
VsDeleteDocument(d) ==
    /\ vsCall.pc = "idle"
    /\ IF ~vsInitialized
       THEN /\ vsOut' = VsThrew("deleteDocument", "Vector service is not initialized", "none")
            /\ UNCHANGED vsCall
       ELSE /\ vsCall' = [op |-> "deleteDocument", pc |-> "awaitDelete", arg |-> {d}]
            /\ vsOut' = NoOutcome
    /\ UNCHANGED <<vsInitialized, vsPoints>>
    /\ UNCHANGED <<vsStartup, vsCollection>>
    /\ UNCHANGED nonVectorVars

\* part_001:508-522: deleteChunks up to its await.
VsDeleteChunks(ids) ==
    /\ vsCall.pc = "idle"
    /\ IF ~vsInitialized
       THEN /\ vsOut' = VsThrew("deleteChunks", "Vector service is not initialized", "none")
            /\ UNCHANGED vsCall
       ELSE IF ids = {}
       THEN /\ vsOut' = VsReturned("deleteChunks", 0, "none")
            /\ UNCHANGED vsCall
       ELSE /\ vsCall' = [op |-> "deleteChunks", pc |-> "awaitDelete", arg |-> ids]
            /\ vsOut' = NoOutcome
    /\ UNCHANGED <<vsInitialized, vsPoints>>
    /\ UNCHANGED <<vsStartup, vsCollection>>
    /\ UNCHANGED nonVectorVars

\* part_001:493-505 and 524-535 resume: client.delete settled.
VsDeleteReturn(outcome) ==
    /\ vsCall.pc = "awaitDelete"
    /\ vsCall' = VsIdle
    /\ IF vsCall.op = "deleteDocument"
       THEN IF outcome = "ok"
            THEN /\ vsPoints' = { c \in vsPoints : DocumentOf(c) \notin vsCall.arg }
                 /\ vsOut' = VsReturned("deleteDocument", TRUE, "none")
            ELSE /\ vsOut' = VsReturned("deleteDocument", FALSE, "client")
                 /\ UNCHANGED vsPoints
       ELSE IF outcome = "ok"
            THEN /\ vsPoints' = vsPoints \ vsCall.arg
                 /\ vsOut' = VsReturned("deleteChunks", Cardinality(vsCall.arg), "none")
            ELSE /\ vsOut' = VsReturned("deleteChunks", 0, "client")
                 /\ UNCHANGED vsPoints
    /\ UNCHANGED vsInitialized
    /\ UNCHANGED <<vsStartup, vsCollection>>
    /\ UNCHANGED nonVectorVars

VectorNext ==
    \/ \E urlConfigured \in BOOLEAN : VsInitialize(urlConfigured)
    \/ \E outcome \in CallOutcomes : VsGetCollectionsReturn(outcome)
    \/ \E outcome \in CallOutcomes : VsCreateCollectionReturn(outcome)
    \/ \E cs \in SUBSET AllChunkIds : VsAddDocuments(cs)
    \/ \E outcome \in CallOutcomes : VsEmbeddingBatchReturn(outcome)
    \/ \E outcome \in CallOutcomes : VsUpsertReturn(outcome)
    \/ \E query \in Queries, supplied \in Thresholds : VsSearch(query, supplied)
    \/ \E outcome \in CallOutcomes : VsQueryEmbeddingReturn(outcome)
    \/ \E outcome \in CallOutcomes, score \in [vsPoints -> Scores] :
          VsClientSearchReturn(outcome, score)
    \/ \E d \in DocumentIds : VsDeleteDocument(d)
    \/ \E ids \in SUBSET AllChunkIds : VsDeleteChunks(ids)
    \/ \E outcome \in CallOutcomes : VsDeleteReturn(outcome)

\* The vector service at rest, while another part is explored.
VectorIdle ==
    /\ vsInitialized = FALSE
    /\ vsStartup = "constructing"
    /\ vsCollection = 0
    /\ vsPoints = {}
    /\ vsCall = VsIdle
    /\ vsOut = NoOutcome

(***************************************************************************)
(* EmbeddingService.createEmbeddingBatch (part_001:107-161).  The texts of *)
(* a call are numbered 1 .. n; the embedding of text i is written i.       *)
(***************************************************************************)
EbIdle == [pc |-> "idle", n |-> 0, from |-> 0, ok |-> {}, err |-> {}]

NoHistory == [n |-> 0, issued |-> {}, fulfilled |-> {}, failed |-> {}]

\* texts.slice(i, i + batchSize) of lines 125-127, as text numbers
SubBatch(n, from) == { i \in 1 .. n : from < i /\ i <= from + EmbedBatchSize }

\* The elements of a set of numbers in increasing order.
RECURSIVE InOrder(_)
InOrder(S) ==
    IF S = {} THEN << >>
    ELSE LET least == CHOOSE i \in S : \A j \in S : i <= j
         IN  <<least>> \o InOrder(S \ {least})

\* A Promise.all that waits for every request and keeps the fulfilled ones.
PromiseAllSettled(batch, ok, err) ==
    IF ok \cup err = batch THEN "fulfilled" ELSE "pending"

\* Promise.all (line 131) over the requests of a sub-batch: rejected with
\* the first rejection, fulfilled when every request is.
PromiseAll(batch, ok, err) ==
    IF err # {} THEN "rejected"
    ELSE IF ok = batch THEN "fulfilled"
    ELSE "pending"

EmbedInit ==
    /\ ebCall = EbIdle
    /\ ebEmbeddings = << >>
    /\ ebOut = NoOutcome
    /\ ebHist = NoHistory

\* part_001:107-130: the call up to the await of its first sub-batch, whose
\* requests are all issued by batch.map.
EbCreateEmbeddingBatch(n) ==
    /\ ebCall.pc = "idle"
    /\ ebEmbeddings' = << >>
    /\ IF n = 0
       THEN /\ ebOut' = [kind |-> "threw", embeddings |-> << >>,
                         message |-> "Texts array is required for batch embedding"]
            /\ ebHist' = NoHistory
            /\ UNCHANGED ebCall
       ELSE IF n > MaxBatchTexts
       THEN /\ ebOut' = [kind |-> "threw", embeddings |-> << >>,
                         message |-> "Too many texts for batch embedding"]
            /\ ebHist' = NoHistory
            /\ UNCHANGED ebCall
       ELSE /\ ebCall' = [pc |-> "awaitBatch", n |-> n, from |-> 0, ok |-> {}, err |-> {}]
            /\ ebHist' = [NoHistory EXCEPT !.n = n, !.issued = SubBatch(n, 0)]
            /\ ebOut' = NoOutcome
    /\ UNCHANGED nonEmbedVars

\* The createEmbedding request for text i settles (part_001:52-105); the
\* await of line 131 resumes when Promise.all settles, and the loop goes on
\* to the next sub-batch, to the return of line 146 or to the catch.
EbRequestReturn(i, outcome) ==
    /\ ebCall.pc = "awaitBatch"
    /\ i \in SubBatch(ebCall.n, ebCall.from) \ (ebCall.ok \cup ebCall.err)
    /\ LET batch == SubBatch(ebCall.n, ebCall.from)
           ok    == IF outcome = "ok" THEN ebCall.ok \cup {i} ELSE ebCall.ok
           err   == IF outcome = "ok" THEN ebCall.err ELSE ebCall.err \cup {i}
           all   == PromiseAll(batch, ok, err)
           got   == ebEmbeddings \o InOrder(ok)
           next  == ebCall.from + EmbedBatchSize
           hist  == IF outcome = "ok"
                    THEN [ebHist EXCEPT !.fulfilled = @ \cup {i}]
                    ELSE [ebHist EXCEPT !.failed = @ \cup {i}]
       IN  CASE all = "pending" ->
                  /\ ebCall' = [ebCall EXCEPT !.ok = ok, !.err = err]
                  /\ ebHist' = hist
                  /\ UNCHANGED <<ebEmbeddings, ebOut>>
             [] all = "rejected" ->
                  /\ ebCall' = EbIdle
                  /\ ebHist' = hist
                  /\ ebOut' = [kind |-> "threw", embeddings |-> << >>,
                               message |-> "Batch embedding failed"]
                  /\ UNCHANGED ebEmbeddings
             [] all = "fulfilled" /\ next < ebCall.n ->
                  /\ ebCall' = [ebCall EXCEPT !.from = next, !.ok = {}, !.err = {}]
                  /\ ebEmbeddings' = got
                  /\ ebHist' = [hist EXCEPT !.issued = @ \cup SubBatch(ebCall.n, next)]
                  /\ UNCHANGED ebOut
             [] all = "fulfilled" /\ next >= ebCall.n ->
                  /\ ebCall' = EbIdle
                  /\ ebEmbeddings' = got
                  /\ ebHist' = hist
                  /\ ebOut' = [kind |-> "returned", embeddings |-> got, message |-> ""]
    /\ UNCHANGED nonEmbedVars

EmbedNext ==
    \/ \E n \in 0 .. MaxTexts : EbCreateEmbeddingBatch(n)
    \/ \E i \in 1 .. MaxTexts, outcome \in CallOutcomes : EbRequestReturn(i, outcome)

(***************************************************************************)
(* GenerationService (GenerationService.ts:33-445): provider selection,    *)
(* generateResponse and healthCheck, cut at the awaited provider call.     *)
(***************************************************************************)
\* GenerationService.ts:52-96: the order in which initialize pushes them
KnownProviders == <<"google", "openai", "anthropic", "cohere">>

Range(f) == { f[k] : k \in DOMAIN f }

\* The providers of list `all` that are in `keep`, in the order of `all`.
RECURSIVE Configured(_, _)
Configured(all, keep) ==
    IF all = << >> THEN << >>
    ELSE (IF Head(all) \in keep THEN <<Head(all)>> ELSE << >>)
            \o Configured(Tail(all), keep)

\* The model strings callers pass, and the ones healthCheck builds.
ModelStrings ==
    {"auto", "gpt-4o-mini", "claude-3-5-sonnet-20241022", "command-r-08-2024",
     "gemini-1.5-pro-002", "llama-3-70b", "gpt-gemini-router"}

\* `${provider}:auto` of line 433
HealthModel(p) ==
    CASE p = "google"    -> "google:auto"
      [] p = "openai"    -> "openai:auto"
      [] p = "anthropic" -> "anthropic:auto"
      [] p = "cohere"    -> "cohere:auto"

\* String.prototype.includes on the model strings above
Includes(modelString, sub) ==
    CASE sub = "gpt"     -> modelString \in {"gpt-4o-mini", "gpt-gemini-router"}
      [] sub = "claude"  -> modelString = "claude-3-5-sonnet-20241022"
      [] sub = "command" -> modelString = "command-r-08-2024"
      [] sub = "gemini"  -> modelString \in {"gemini-1.5-pro-002", "gpt-gemini-router"}
      [] OTHER           -> FALSE

\* this.availableProviders[0] || 'google'
FirstProvider == IF gsProviders # << >> THEN gsProviders[1] ELSE "google"

\* A parseModelString whose default is always google.
parseModelStringGoogle(modelString) ==
    IF Includes(modelString, "gpt") THEN <<"openai", modelString>>
    ELSE IF Includes(modelString, "claude") THEN <<"anthropic", modelString>>
    ELSE IF Includes(modelString, "command") THEN <<"cohere", modelString>>
    ELSE IF Includes(modelString, "gemini") THEN <<"google", modelString>>
    ELSE <<"google", getDefaultModelForProvider("google")>>

\* GenerationService.ts:371-379
parseModelString(modelString) ==
    IF Includes(modelString, "gpt") THEN <<"openai", modelString>>
    ELSE IF Includes(modelString, "claude") THEN <<"anthropic", modelString>>
    ELSE IF Includes(modelString, "command") THEN <<"cohere", modelString>>
    ELSE IF Includes(modelString, "gemini") THEN <<"google", modelString>>
    ELSE <<FirstProvider, getDefaultModelForProvider(FirstProvider)>>

\* GenerationService.ts:114-125
SelectProvider(requested) ==
    IF requested = "auto"
    THEN <<FirstProvider, getDefaultModelForProvider(FirstProvider)>>
    ELSE parseModelString(requested)

\* The cause rethrown as it is.
GenerationFailedBare(cause) == [message |-> cause]

\* GenerationService.ts:170: new Error(`Generation failed: ${error.message}`)
GenerationFailed(cause) == [message |-> "Generation failed", cause |-> cause]

\* The ways the provider's SDK call settles: with content, with empty
\* content, or with an error.
ProviderOutcomes == {"content", "empty", "error"}

GsIdle ==
    [pc |-> "idle", by |-> "none", requested |-> "", provider |-> "", model |-> "",
     max_tokens |-> 0, probing |-> 0, healthStatus |-> << >>]

NoLog == [provider |-> "", model |-> ""]

\* GenerationService.ts:108: options.max_tokens || 1000
DefaultMaxTokens == 1000
\* GenerationService.ts:432: max_tokens of a health probe
ProbeMaxTokens == 10

\* The error generateWith<Provider> throws when its client was not created.
NotInitialized(p) ==
    CASE p = "google"    -> "Google AI not initialized"
      [] p = "openai"    -> "OpenAI not initialized"
      [] p = "anthropic" -> "Anthropic not initialized"
      [] p = "cohere"    -> "Cohere not initialized"

GenIdle ==
    /\ gsProviders = << >>
    /\ gsCall = GsIdle
    /\ gsOut = NoOutcome
    /\ gsLogged = NoLog
    /\ gsAttempts = << >>
    /\ gsProbes = << >>

\* After initialize(): a client for every provider whose API key is set.
GenInit ==
    /\ gsProviders \in { Configured(KnownProviders, keep) :
                            keep \in SUBSET Range(KnownProviders) }
    /\ gsCall = GsIdle
    /\ gsOut = NoOutcome
    /\ gsLogged = NoLog
    /\ gsAttempts = << >>
    /\ gsProbes = << >>

\* generateResponse ends, with a result or an error: the direct caller gets
\* it; healthCheck (lines 429-440) turns it into the provider's status and
\* goes on with the next provider.
GsEnd(by, probing, healthStatus, maxTokens, to, ok, content, error) ==
    IF by = "caller"
    THEN /\ gsCall' = GsIdle
         /\ gsOut' = IF ok THEN [kind |-> "returned", content |-> content,
                                 provider |-> to]
                          ELSE [kind |-> "threw", error |-> error]
         /\ UNCHANGED gsProbes
    ELSE LET p == gsProviders[probing]
             status == [q \in DOMAIN healthStatus \cup {p} |->
                          IF q = p THEN ok /\ content # "" ELSE healthStatus[q]]
         IN  /\ gsProbes' = Append(gsProbes,
                                [for |-> p, to |-> to, max_tokens |-> maxTokens,
                                 nonEmpty |-> ok /\ content # ""])
             /\ IF probing = Len(gsProviders)
                THEN /\ gsCall' = GsIdle
                     /\ gsOut' = [kind |-> "health", healthStatus |-> status]
                ELSE /\ gsCall' = [GsIdle EXCEPT !.pc = "probe", !.by = "healthCheck",
                                                  !.probing = probing + 1,
                                                  !.healthStatus = status]
                     /\ UNCHANGED gsOut

\* generateResponse up to its awaited provider call (lines 102-146).
GsEnter(requested, maxTokens, by, probing, healthStatus) ==
    IF gsProviders = << >>
    THEN /\ gsAttempts' = << >>
         /\ UNCHANGED gsLogged
         /\ GsEnd(by, probing, healthStatus, maxTokens, "none", FALSE, "",
                  [message |-> "No AI providers available"])
    ELSE LET sel == SelectProvider(requested) IN
         IF sel[1] \notin Range(gsProviders)
         THEN /\ gsAttempts' = <<sel[1]>>
              /\ gsLogged' = [provider |-> sel[1], model |-> sel[2]]
              /\ GsEnd(by, probing, healthStatus, maxTokens, "none", FALSE, "",
                       GenerationFailed(NotInitialized(sel[1])))
         ELSE /\ gsAttempts' = <<sel[1]>>
              /\ gsCall' = [pc |-> "awaitProvider", by |-> by, requested |-> requested,
                            provider |-> sel[1], model |-> sel[2],
                            max_tokens |-> maxTokens, probing |-> probing,
                            healthStatus |-> healthStatus]
              /\ UNCHANGED <<gsOut, gsLogged, gsProbes>>

\* A caller calls generateResponse(messages, {model: requested}).
GsGenerateResponse(requested) ==
    /\ gsCall.pc = "idle"
    /\ GsEnter(requested, DefaultMaxTokens, "caller", 0, << >>)
    /\ UNCHANGED <<gsProviders, nonGenVars>>

\* The awaited generateWith<Provider> call settles (lines 147-170).
GsProviderReturn(outcome) ==
    /\ gsCall.pc = "awaitProvider"
    /\ gsLogged' = IF outcome = "error"
                   THEN [provider |-> gsCall.provider, model |-> gsCall.model]
                   ELSE gsLogged
    /\ GsEnd(gsCall.by, gsCall.probing, gsCall.healthStatus, gsCall.max_tokens,
             gsCall.provider, outcome # "error",
             IF outcome = "content" THEN "text" ELSE "",
             GenerationFailed("provider error"))
    /\ UNCHANGED <<gsProviders, gsAttempts, nonGenVars>>

\* healthCheck() is called (lines 422-426).
GsHealthCheck ==
    /\ gsCall.pc = "idle"
    /\ gsProbes' = << >>
    /\ IF gsProviders = << >>
       THEN /\ gsCall' = GsIdle
            /\ gsOut' = [kind |-> "health", healthStatus |-> << >>]
       ELSE /\ gsCall' = [GsIdle EXCEPT !.pc = "probe", !.by = "healthCheck",
                                         !.probing = 1]
            /\ UNCHANGED gsOut
    /\ UNCHANGED <<gsProviders, gsLogged, gsAttempts, nonGenVars>>

\* One turn of the loop of healthCheck: the probe of the next provider
\* (lines 427-434).
GsHealthProbe ==
    /\ gsCall.pc = "probe"
    /\ GsEnter(HealthModel(gsProviders[gsCall.probing]), ProbeMaxTokens,
               "healthCheck", gsCall.probing, gsCall.healthStatus)
    /\ UNCHANGED <<gsProviders, nonGenVars>>

GenNext ==
    \/ \E requested \in ModelStrings : GsGenerateResponse(requested)
    \/ \E outcome \in ProviderOutcomes : GsProviderReturn(outcome)
    \/ GsHealthCheck
    \/ GsHealthProbe

(***************************************************************************)
(* BatchQueue (performance.ts:102-138): add and the process loop, cut at   *)
(* its two awaits.  The items added are numbered 1, 2, ... in the order of *)
(* the add calls.                                                          *)
(***************************************************************************)
\* queue.splice(0, n): the items removed, and the items left.
SpliceTaken(q, n) == SubSeq(q, 1, IF Len(q) < n THEN Len(q) ELSE n)
SpliceLeft(q, n)  == SubSeq(q, (IF Len(q) < n THEN Len(q) ELSE n) + 1, Len(q))

BatchIdle ==
    /\ bqBatchSize = 1
    /\ bqQueue = << >>
    /\ bqProcessing = FALSE
    /\ bqPc = "idle"
    /\ bqAdded = 0
    /\ bqPassed = << >>

\* performance.ts:103-118: a new queue, for any batch size.
BatchInit ==
    /\ bqBatchSize \in 1 .. MaxBatchSize
    /\ bqQueue = << >>
    /\ bqProcessing = FALSE
    /\ bqPc = "idle"
    /\ bqAdded = 0
    /\ bqPassed = << >>

\* performance.ts:130-136: the loop test, and either one turn of the loop
\* up to `await this.processFn(batch)` or the end of process().
BqLoop(q) ==
    IF q # << >>
    THEN /\ bqQueue' = SpliceLeft(q, bqBatchSize)
         /\ bqPassed' = Append(bqPassed, SpliceTaken(q, bqBatchSize))
         /\ bqProcessing' = TRUE
         /\ bqPc' = "awaitProcessFn"
    ELSE /\ bqQueue' = q
         /\ bqProcessing' = FALSE
         /\ bqPc' = "idle"
         /\ UNCHANGED bqPassed

\* performance.ts:120-128: add(item); process() runs synchronously up to
\* its first await when no process() is under way.
BqAdd ==
    /\ bqAdded < MaxItems
    /\ bqAdded' = bqAdded + 1
    /\ IF ~bqProcessing
       THEN BqLoop(Append(bqQueue, bqAdded + 1))
       ELSE /\ bqQueue' = Append(bqQueue, bqAdded + 1)
            /\ UNCHANGED <<bqProcessing, bqPc, bqPassed>>
    /\ UNCHANGED <<bqBatchSize, nonBatchVars>>

\* performance.ts:132 resumes: the promise of processFn settled.  When it
\* rejected, process() ends by rejecting at this await.
BqProcessFnReturn(outcome) ==
    /\ bqPc = "awaitProcessFn"
    /\ bqPc' = IF outcome = "ok" THEN "awaitDelay" ELSE "rejected"
    /\ UNCHANGED <<bqBatchSize, bqQueue, bqProcessing, bqAdded, bqPassed, nonBatchVars>>

\* performance.ts:133 resumes: the delay timer fired.
BqDelayElapsed ==
    /\ bqPc = "awaitDelay"
    /\ BqLoop(bqQueue)
    /\ UNCHANGED <<bqBatchSize, bqAdded, nonBatchVars>>

BatchNext ==
    \/ BqAdd
    \/ \E outcome \in CallOutcomes : BqProcessFnReturn(outcome)
    \/ BqDelayElapsed

(***************************************************************************)
(* useDebouncedCallback (part_010:29-48).  The timer id lives in React     *)
(* state; the function the caller holds is the one of the latest render    *)
(* and sees the timer id of that render.  A timer is named by the number   *)
(* of the invocation that set it, and an invocation passes its number as   *)
(* argument.  The invocations explored follow each other within the delay. *)
(***************************************************************************)
NoTimer == 0

DebounceIdle ==
    /\ dbTimeoutId = NoTimer
    /\ dbRendered = NoTimer
    /\ dbTimers = {}
    /\ dbNow = 0
    /\ dbInvoked = << >>
    /\ dbCalls = << >>

\* clearTimeout(id): without effect when the timer is not pending.
ClearTimeout(timers, id) == { t \in timers : t.id # id }

\* part_010:35-45: the debounced function of the latest render is called.
\* setTimeoutId schedules a render; it does not change what this function
\* sees.
DbInvoke ==
    /\ Len(dbInvoked) < MaxInvocations
    /\ dbInvoked # << >> => dbNow < dbInvoked[Len(dbInvoked)] + DebounceDelay
    /\ LET id == Len(dbInvoked) + 1
           kept == IF dbRendered # NoTimer
                   THEN ClearTimeout(dbTimers, dbRendered) ELSE dbTimers
       IN  /\ dbTimers' = kept \cup {[id |-> id, due |-> dbNow + DebounceDelay]}
           /\ dbTimeoutId' = id
    /\ dbInvoked' = Append(dbInvoked, dbNow)
    /\ UNCHANGED <<dbRendered, dbNow, dbCalls, nonDebounceVars>>

\* React renders the component after the state update: the hook returns a
\* new function, which sees the current timer id.
DbRender ==
    /\ dbRendered # dbTimeoutId
    /\ dbRendered' = dbTimeoutId
    /\ UNCHANGED <<dbTimeoutId, dbTimers, dbNow, dbInvoked, dbCalls, nonDebounceVars>>

\* part_010:40-42: a timer is due and runs the wrapped callback with the
\* arguments of the invocation that set it.
DbFire(t) ==
    /\ t \in dbTimers
    /\ t.due <= dbNow
    /\ dbTimers' = dbTimers \ {t}
    /\ dbCalls' = Append(dbCalls, [args |-> t.id, at |-> dbNow])
    /\ UNCHANGED <<dbTimeoutId, dbRendered, dbNow, dbInvoked, nonDebounceVars>>

\* Time passes while a timer is pending; a due timer fires first.
DbTick ==
    /\ dbTimers # {}
    /\ \A t \in dbTimers : t.due > dbNow
    /\ dbNow' = dbNow + 1
    /\ UNCHANGED <<dbTimeoutId, dbRendered, dbTimers, dbInvoked, dbCalls, nonDebounceVars>>

DebounceNext ==
    \/ DbInvoke
    \/ DbRender
    \/ \E t \in dbTimers : DbFire(t)
    \/ DbTick

(***************************************************************************)
(* memoize (performance.ts:74-97).  The cache is a Map, which keeps its    *)
(* keys in insertion order: it is modelled as the sequence of its keys.    *)
(* A key stands for JSON.stringify(args).                                  *)
(***************************************************************************)
MemoKeys == 1 .. MaxKeys

NoCall == [key |-> 0, computed |-> FALSE, evicted |-> 0]

MemoIdle ==
    /\ mcMaxSize = 1
    /\ mcCache = << >>
    /\ mcCalls = 0
    /\ mcInsertedAt = [k \in MemoKeys |-> 0]
    /\ mcLast = NoCall

\* performance.ts:74-78: memoize(fn, maxSize)
MemoInit ==
    /\ mcMaxSize \in 0 .. MaxCacheSize
    /\ mcCache = << >>
    /\ mcCalls = 0
    /\ mcInsertedAt = [k \in MemoKeys |-> 0]
    /\ mcLast = NoCall

\* cache.has(key)
CacheHas(cache, key) == \E p \in DOMAIN cache : cache[p] = key

\* The key inserted last.
LastKey(cache) == cache[Len(cache)]

\* performance.ts:92: cache.keys().next().value
FirstKey(cache) == cache[1]

\* cache.delete(key)
CacheDelete(cache, key) == SelectSeq(cache, LAMBDA k : k # key)

\* performance.ts:80-96: one call of the memoized function.
MemoCall(key) ==
    /\ mcCalls < MaxCalls
    /\ mcCalls' = mcCalls + 1
    /\ IF CacheHas(mcCache, key)
       THEN /\ mcLast' = [key |-> key, computed |-> FALSE, evicted |-> 0]
            /\ UNCHANGED <<mcCache, mcInsertedAt>>
       ELSE LET set == Append(mcCache, key)
            IN  /\ mcInsertedAt' = [mcInsertedAt EXCEPT ![key] = mcCalls + 1]
                /\ IF Len(set) > mcMaxSize
                   THEN /\ mcCache' = CacheDelete(set, FirstKey(set))
                        /\ mcLast' = [key |-> key, computed |-> TRUE,
                                      evicted |-> FirstKey(set)]
                   ELSE /\ mcCache' = set
                        /\ mcLast' = [key |-> key, computed |-> TRUE, evicted |-> 0]
    /\ UNCHANGED <<mcMaxSize, nonMemoVars>>

MemoNext == \E key \in MemoKeys : MemoCall(key)

(***************************************************************************)
(* The upload route (chat.ts:409-693): the job store, background           *)
(* processing of an uploaded file, cut at its awaits, and the delete       *)
(* routes.  A job object lives on while processFileAsync holds it, whether *)
(* or not the store still maps its id to it.                               *)
(***************************************************************************)
JobIds == 1 .. MaxJobs

NoJob == [status |-> "none", progress |-> 0]

\* The ways processDocument can go: the text is extracted and the chunks
\* are stored; the vector service is not available; addDocuments throws;
\* the extraction throws.
ProcessingWays == {"stored", "unavailable", "storeFailed", "extractFailed"}

\* part_002:100-232  processDocument: only a failure before the chunks are
\* handed to the vector service yields success: false (173-215).
processDocument(how) ==
    [success |-> how # "extractFailed", vectorStoreSuccess |-> how = "stored"]

UploadIdle ==
    /\ upStore = {}
    /\ upJob = [j \in JobIds |-> NoJob]
    /\ upTask = [j \in JobIds |-> "none"]
    /\ upStored = [j \in JobIds |-> FALSE]
    /\ upDeleted = {}

\* chat.ts:412-447: POST / with a file; processFileAsync (625-641) runs up
\* to its await of processDocument.
UpUpload(j) ==
    /\ upTask[j] = "none"
    /\ \A k \in JobIds : k < j => upTask[k] # "none"
    /\ upStore' = upStore \cup {j}
    /\ upJob' = [upJob EXCEPT ![j] = [status |-> "processing", progress |-> 20]]
    /\ upTask' = [upTask EXCEPT ![j] = "awaitProcess"]
    /\ UNCHANGED <<upStored, upDeleted, nonUploadVars>>

\* chat.ts:641-672 and 674-679 resume: processDocument settled.  Every
\* processingJobs.set(jobId, job) maps the id to the job object again.
UpProcessReturn(j, how) ==
    /\ upTask[j] = "awaitProcess"
    /\ upStore' = upStore \cup {j}
    /\ upStored' = [upStored EXCEPT ![j] = processDocument(how).vectorStoreSuccess]
    /\ IF processDocument(how).success
       THEN /\ upJob' = [upJob EXCEPT ![j] = [status |-> "completed", progress |-> 100]]
            /\ upTask' = [upTask EXCEPT ![j] = "awaitCleanup"]
       ELSE /\ upJob' = [upJob EXCEPT ![j] = [status |-> "failed", progress |-> 80]]
            /\ upTask' = [upTask EXCEPT ![j] = "awaitCleanupFailed"]
    /\ UNCHANGED <<upDeleted, nonUploadVars>>

\* chat.ts:668 resumes: cleanupTempFile settled after a completed job; its
\* error is caught at 674 and marks the job failed.
UpCleanupReturn(j, outcome) ==
    /\ upTask[j] = "awaitCleanup"
    /\ IF outcome = "ok"
       THEN /\ upTask' = [upTask EXCEPT ![j] = "done"]
            /\ UNCHANGED <<upStore, upJob>>
       ELSE /\ upStore' = upStore \cup {j}
            /\ upJob' = [upJob EXCEPT ![j].status = "failed"]
            /\ upTask' = [upTask EXCEPT ![j] = "awaitCleanupFailed"]
    /\ UNCHANGED <<upStored, upDeleted, nonUploadVars>>

\* chat.ts:684-691 resumes: the cleanup after a failure settled.
UpFailedCleanupReturn(j) ==
    /\ upTask[j] = "awaitCleanupFailed"
    /\ upTask' = [upTask EXCEPT ![j] = "done"]
    /\ UNCHANGED <<upStore, upJob, upStored, upDeleted, nonUploadVars>>

\* chat.ts:540-565: DELETE /documents/:id of a job in the store.
UpDelete(j) ==
    /\ j \in upStore
    /\ upStore' = upStore \ {j}
    /\ upDeleted' = upDeleted \cup {j}
    /\ UNCHANGED <<upJob, upTask, upStored, nonUploadVars>>

\* chat.ts:568-623: POST /documents/bulk-delete; the ids not in the store
\* are reported as failed.
UpBulkDelete(ids) ==
    /\ ids # {}
    /\ ids \cap upStore # {}
    /\ upStore' = upStore \ ids
    /\ upDeleted' = upDeleted \cup (ids \cap upStore)
    /\ UNCHANGED <<upJob, upTask, upStored, nonUploadVars>>

\* chat.ts:488-497: the documents GET /documents lists.
DocumentList == { j \in upStore : upJob[j].status = "completed" }

UploadNext ==
    \/ \E j \in JobIds : UpUpload(j)
    \/ \E j \in JobIds, how \in ProcessingWays : UpProcessReturn(j, how)
    \/ \E j \in JobIds, outcome \in CallOutcomes : UpCleanupReturn(j, outcome)
    \/ \E j \in JobIds : UpFailedCleanupReturn(j)
    \/ \E j \in JobIds : UpDelete(j)
    \/ \E ids \in SUBSET JobIds : UpBulkDelete(ids)

(***************************************************************************)
(* The prompt manager (part_008): handleToggleActive (262-306) and         *)
(* loadPrompts (123-190) with no list filter set, cut at the awaited       *)
(* requests to the prompt service.  ptServer is the set of prompts that    *)
(* are active on the server, ptView the same as the page last loaded it.   *)
(***************************************************************************)
\* The prompts, in the order the server lists them; "system" is the
\* prompt of category and name 'system'.
PromptOrder == <<"system", "p1", "p2", "p3">>

PromptIds == Range(PromptOrder)

\* The members of `active` in list order, each as the request that sets
\* its is_active to `on`.
RECURSIVE Toggles(_, _, _)
Toggles(order, active, on) ==
    IF order = << >> THEN << >>
    ELSE (IF Head(order) \in active THEN <<[id |-> Head(order), on |-> on]>> ELSE << >>)
            \o Toggles(Tail(order), active, on)

PtIdle == [pc |-> "idle", in |-> "none", todo |-> << >>]

\* The page after its first load: one prompt is active.
PromptInit ==
    /\ ptServer \in { {p} : p \in PromptIds }
    /\ ptView = ptServer
    /\ ptCall = PtIdle
    /\ ptDone = "none"

PromptIdle ==
    /\ ptServer = {"system"}
    /\ ptView = {"system"}
    /\ ptCall = PtIdle
    /\ ptDone = "none"

\* part_008:262-298: handleToggleActive(prompt) up to its first request.
PtHandleToggleActive(p) ==
    /\ ptCall.pc = "idle"
    /\ LET todo ==
             IF p \notin ptView
             THEN Toggles(PromptOrder, ptView, FALSE) \o <<[id |-> p, on |-> TRUE]>>
             ELSE IF Cardinality(ptView) = 1
             THEN IF p # "system"
                  THEN <<[id |-> p, on |-> FALSE], [id |-> "system", on |-> TRUE]>>
                  ELSE << >>
             ELSE <<[id |-> p, on |-> FALSE]>>
       IN  IF todo = << >>
           THEN /\ ptDone' = "refused"
                /\ UNCHANGED ptCall
           ELSE /\ ptDone' = "none"
                /\ ptCall' = [pc |-> "awaitToggle", in |-> "handleToggleActive",
                              todo |-> todo]
    /\ UNCHANGED <<ptServer, ptView, nonPromptVars>>

\* An awaited togglePrompt settled.  An error in handleToggleActive ends
\* it in its catch (302-305); one in loadPrompts ends loadPrompts in its
\* catch (186-189), after which handleToggleActive returns.
PtToggleReturn(outcome) ==
    /\ ptCall.pc = "awaitToggle"
    /\ IF outcome = "error"
       THEN /\ ptCall' = PtIdle
            /\ ptDone' = IF ptCall.in = "handleToggleActive" THEN "failed" ELSE "load failed"
            /\ UNCHANGED ptServer
       ELSE LET t == Head(ptCall.todo)
            IN  /\ ptServer' = IF t.on THEN ptServer \cup {t.id} ELSE ptServer \ {t.id}
                /\ ptCall' = IF Tail(ptCall.todo) # << >>
                              THEN [ptCall EXCEPT !.todo = Tail(@)]
                              ELSE IF ptCall.in = "handleToggleActive"
                              THEN [pc |-> "awaitGetPrompts", in |-> "loadPrompts",
                                    todo |-> << >>]
                              ELSE [pc |-> "awaitReload", in |-> "loadPrompts",
                                    todo |-> << >>]
                /\ UNCHANGED ptDone
    /\ UNCHANGED <<ptView, nonPromptVars>>

\* part_008:138-184 resumes: getPrompts of loadPrompts settled.
PtGetPromptsReturn(outcome) ==
    /\ ptCall.pc = "awaitGetPrompts"
    /\ IF outcome = "error"
       THEN /\ ptCall' = PtIdle
            /\ ptDone' = "load failed"
            /\ UNCHANGED ptView
       ELSE IF ptServer = {}
       THEN /\ ptCall' = [pc |-> "awaitToggle", in |-> "loadPrompts",
                          todo |-> <<[id |-> "system", on |-> TRUE]>>]
            /\ UNCHANGED <<ptView, ptDone>>
       ELSE IF Cardinality(ptServer) > 1
       THEN /\ ptCall' = [pc |-> "awaitToggle", in |-> "loadPrompts",
                          todo |-> Tail(Toggles(PromptOrder, ptServer, FALSE))]
            /\ UNCHANGED <<ptView, ptDone>>
       ELSE /\ ptCall' = PtIdle
            /\ ptView' = ptServer
            /\ ptDone' = "done"
    /\ UNCHANGED <<ptServer, nonPromptVars>>

\* part_008:159-160 and 180-181 resume: the second getPrompts settled.
PtReloadReturn(outcome) ==
    /\ ptCall.pc = "awaitReload"
    /\ ptCall' = PtIdle
    /\ IF outcome = "ok"
       THEN /\ ptView' = ptServer
            /\ ptDone' = "done, active prompts adjusted"
       ELSE /\ ptDone' = "load failed"
            /\ UNCHANGED ptView
    /\ UNCHANGED <<ptServer, nonPromptVars>>

PromptNext ==
    \/ \E p \in PromptIds : PtHandleToggleActive(p)
    \/ \E outcome \in CallOutcomes : PtToggleReturn(outcome)
    \/ \E outcome \in CallOutcomes : PtGetPromptsReturn(outcome)
    \/ \E outcome \in CallOutcomes : PtReloadReturn(outcome)

(***************************************************************************)
(* Specifications.                                                         *)
(***************************************************************************)
Init == ChatInit /\ SplitIdle /\ VectorIdle /\ EmbedInit /\ GenIdle /\ BatchIdle /\ DebounceIdle /\ MemoIdle /\ UploadIdle /\ PromptIdle

Next == ChatNext(MaxRequests, TRUE)

\* The chat route under overlapping requests.
Spec == Init /\ [][Next]_vars

SeqNext == ChatNext(SeqRequests, FALSE)

\* The chat route when requests never overlap, over a longer run.
SeqSpec == Init /\ [][SeqNext]_vars

\* One call of splitTextIntoChunks on any admissible input.  The call is
\* synchronous code: once entered it keeps running.
SplitStart == ChatIdle /\ SplitInit /\ VectorIdle /\ EmbedInit /\ GenIdle /\ BatchIdle /\ DebounceIdle /\ MemoIdle /\ UploadIdle /\ PromptIdle

SplitSpec == SplitStart /\ [][SplitNext]_vars

\* The calls of VectorService, one at a time.
VectorStart == ChatIdle /\ SplitIdle /\ VectorInit /\ EmbedInit /\ GenIdle /\ BatchIdle /\ DebounceIdle /\ MemoIdle /\ UploadIdle /\ PromptIdle

VectorSpec == VectorStart /\ [][VectorNext]_vars

\* The calls of createEmbeddingBatch, one at a time.
EmbedStart == ChatIdle /\ SplitIdle /\ VectorIdle /\ EmbedInit /\ GenIdle /\ BatchIdle /\ DebounceIdle /\ MemoIdle /\ UploadIdle /\ PromptIdle

EmbedSpec == EmbedStart /\ [][EmbedNext]_vars

\* The generation service alone, with every set of configured providers.
GenStart == ChatIdle /\ SplitIdle /\ VectorIdle /\ EmbedInit /\ GenInit /\ BatchIdle /\ DebounceIdle /\ MemoIdle /\ UploadIdle /\ PromptIdle

GenSpec == GenStart /\ [][GenNext]_vars

\* A BatchQueue to which items are added at any time.
BatchStart == ChatIdle /\ SplitIdle /\ VectorIdle /\ EmbedInit /\ GenIdle /\ BatchInit /\ DebounceIdle /\ MemoIdle /\ UploadIdle /\ PromptIdle

BatchSpec == BatchStart /\ [][BatchNext]_vars

\* A burst of invocations of a debounced callback.
DebounceStart == ChatIdle /\ SplitIdle /\ VectorIdle /\ EmbedInit /\ GenIdle /\ BatchIdle /\ DebounceIdle /\ MemoIdle /\ UploadIdle /\ PromptIdle

DebounceSpec == DebounceStart /\ [][DebounceNext]_vars

\* Calls of a memoized function with any keys.
MemoStart == ChatIdle /\ SplitIdle /\ VectorIdle /\ EmbedInit /\ GenIdle /\ BatchIdle /\ DebounceIdle /\ MemoInit /\ UploadIdle /\ PromptIdle

MemoSpec == MemoStart /\ [][MemoNext]_vars

\* Uploads, their background processing, and deletes at any time.
UploadStart == ChatIdle /\ SplitIdle /\ VectorIdle /\ EmbedInit /\ GenIdle /\ BatchIdle /\ DebounceIdle /\ MemoIdle /\ UploadIdle /\ PromptIdle

UploadSpec == UploadStart /\ [][UploadNext]_vars

\* The prompt manager: toggles, one at a time.
PromptStart == ChatIdle /\ SplitIdle /\ VectorIdle /\ EmbedInit /\ GenIdle /\ BatchIdle /\ DebounceIdle /\ MemoIdle /\ UploadIdle /\ PromptInit

PromptSpec == PromptStart /\ [][PromptNext]_vars

\* The same, when every awaited promise settles and every timer fires.
BatchLiveSpec ==
    /\ BatchStart
    /\ [][BatchNext]_vars
    /\ WF_vars(\E outcome \in CallOutcomes : BqProcessFnReturn(outcome))
    /\ WF_vars(BqDelayElapsed)

(***************************************************************************)
(* Properties of the session store.                                        *)
(***************************************************************************)
StoredSession(sid) == heap[sessions[sid]]

HistoryOf(sid) == StoredSession(sid).history

Holds(hist, msg) == \E k \in DOMAIN hist : hist[k] = msg

CapNotReached(sid) ==
    \A o \in DOMAIN heap : heap[o].session_id = sid => Len(appended[o]) <= HistoryCap

\* C1: no appended message is lost.  For every chat request on a session id
\* that was answered since that id was last removed from the store, and as
\* long as no more than HistoryCap messages were appended for the id, the
\* stored session's history holds the request's user message and its
\* assistant message.
C1_NoAppendedMessageLost ==
    \A sid \in AllSessionIds : \A r \in completed[sid] :
        CapNotReached(sid) =>
            /\ sid \in DOMAIN sessions
            /\ Holds(HistoryOf(sid), UserMessage(r))
            /\ Holds(HistoryOf(sid), AssistantMessage(r))

\* C2: the cap is enforced with every append: whenever the history query
\* finds a session, the message list it returns holds at most HistoryCap
\* messages.
C2_ReadNeverExceedsCap ==
    \A sid \in AllSessionIds :
        GetHistory(sid).status = 200 => Len(GetHistory(sid).messages) <= HistoryCap

\* C3: deleted is absorbing: a session object that was removed from the
\* store, by explicit delete or by the sweep, is never in the store again.
C3_DeletedIsAbsorbing ==
    \A sid \in DOMAIN sessions : fate[sessions[sid]] = "live"

\* C4: every chat request that passes validation is answered with a success
\* result; when generation failed (provider error, or no provider at all)
\* the answer is the fixed fallback with provider "system", model
\* "fallback" and 0 tokens.
C4_AlwaysAnAnswer ==
    (res.route = "chat" /\ res.status # 400) =>
        /\ res.status = 200
        /\ res.gen \in {"error", "none"} =>
              /\ res.answer = FallbackResponse.content
              /\ res.provider = "system"
              /\ res.model_used = "fallback"
              /\ res.tokens_used = 0

C4_Witness ==
    /\ res.route = "chat"
    /\ res.status = 200
    /\ res.gen = "none"
    /\ availableProviders = << >>
    /\ res.model_used = "fallback"

\* C5: a retrieval failure never fails the chat request: when the vector
\* store is unavailable or the search fails, generation is entered with
\* the empty passage set and the request is answered with a success result
\* that lists no sources.
C5_RetrievalFailureDegrades ==
    /\ \A i \in Invocations :
          (inv[i].pc = "awaitGenerate" /\ inv[i].search \in {"unavailable", "error"})
             => inv[i].searchResults = NoHits
    /\ (res.route = "chat" /\ res.status # 400 /\ res.search \in {"unavailable", "error"})
          => (res.status = 200 /\ res.sources = NoHits /\ res.gen # "skipped")

C5_Witness ==
    /\ res.route = "chat"
    /\ res.status = 200
    /\ res.search = "error"
    /\ res.gen = "ok"

\* What the claim calls an invalid userText: absent or empty, made of
\* whitespace only, or longer than the maximum length.
InvalidUserText(m) ==
    \/ ~m.defined
    \/ TextLength(m.runs) = 0
    \/ \A k \in DOMAIN m.runs : IsWhitespace(m.runs[k].ch)
    \/ TextLength(m.runs) > MaxMessageLength

InvalidBodies == { body \in ChatBodies : InvalidUserText(body.message) }

\* The answer is a validation error and nothing but the answer changes.
ValidationErrorOnly ==
    /\ res'.route = "chat"
    /\ res'.status = 400
    /\ UNCHANGED <<sessions, heap, inv, issued, nreq, appended, fate, completed>>

\* C6: a chat call with an invalid userText is answered with a validation
\* error and has no side effect: no session is created or modified and no
\* invocation starts (so no retrieval or generation call is issued).  That
\* is, every step is such an answer, or it is not the handling of a chat
\* call with an invalid userText.
C6_InvalidTextHasNoEffect ==
    [][ \/ ValidationErrorOnly
        \/ ~ \E body \in InvalidBodies :
                 ChatReject(body) \/ \E i \in Invocations : ChatPost(i, body)
      ]_vars

C6_Witness ==
    /\ res.route = "chat"
    /\ res.status = 400
    /\ res.code = "MESSAGE_TOO_LONG"
    /\ sessions # << >>

\* C7: the cap keeps the newest messages in their order: once at least
\* HistoryCap messages were appended to a session, its history is exactly
\* the last HistoryCap of them, in the order they were appended.
C7_ExactlyTheLastTen ==
    \A o \in DOMAIN heap :
        Len(appended[o]) >= HistoryCap =>
            heap[o].history = SliceLast(appended[o], HistoryCap)

\* C8: the sweep runs at every interval and deletes what is expired:
\* whenever no firing of the timer is outstanding, the store holds no
\* session idle for longer than maxAge.
C8_SweepRemovesExpired ==
    ~sweepDue =>
        \A sid \in DOMAIN sessions : now - StoredSession(sid).last_activity <= maxAge

C8_Witness ==
    /\ ~sweepDue
    /\ \E o \in DOMAIN heap :
          /\ fate[o] = "sweep"
          /\ now - heap[o].last_activity > maxAge
          /\ heap[o].session_id \notin DOMAIN sessions

(***************************************************************************)
(* Properties of the chunker.                                              *)
(***************************************************************************)
\* C9: split terminates: with every iteration of the loop the window start
\* strictly increases, so the loop runs at most once per character of the
\* text.
C9_SplitTerminates ==
    [][SplitStep => (start' > start /\ Len(windows') <= Len(text))]_vars

C9_Witness ==
    /\ splitPc = "done"
    /\ Len(windows) >= 2
    /\ overlap = chunkSize - 1
    /\ \E k \in DOMAIN windows : windows[k].to < windows[k].from + chunkSize
                                 /\ windows[k].to < Len(text)

Covered(p) == \E k \in DOMAIN windows : windows[k].from <= p /\ p < windows[k].to

\* C10: the chunks reconstruct the text up to trimming and overlap: every
\* non-whitespace character of the text lies in the window of some chunk,
\* so nothing between two consecutive windows is dropped.
C10_ChunksCoverText ==
    splitPc = "done" =>
        \A p \in 0 .. (Len(text) - 1) : ~IsWhitespace(CharAt(text, p)) => Covered(p)

\* C11: split returns at least one chunk and every returned chunk is
\* non-empty.
C11_AtLeastOneNonEmptyChunk ==
    splitPc = "done" =>
        /\ Len(chunks) >= 1
        /\ \A k \in DOMAIN chunks : Len(chunks[k]) > 0

IsCutChar(c) == c \in {" ", "\n", "."}

\* The nearest cut character before position p of the text, or -1.
PrecedingCut(p) ==
    LET hits == { q \in 0 .. (Len(text) - 1) : q < p /\ IsCutChar(CharAt(text, q)) }
    IN  IF hits = {} THEN -1 ELSE CHOOSE q \in hits : \A r \in hits : r <= q

\* C12: a non-final window ends just after the nearest preceding cut
\* character exactly when the chunk that results keeps at least half of
\* chunkSize; otherwise it ends at the raw end start + chunkSize.
C12_BoundaryRule ==
    \A k \in DOMAIN windows :
        LET w   == windows[k]
            raw == w.from + chunkSize
            cut == PrecedingCut(raw)
        IN  raw < Len(text) =>
               IF cut >= w.from /\ 2 * (cut + 1 - w.from) >= chunkSize
               THEN w.to = cut + 1
               ELSE w.to = raw

\* C13: with overlap > 0 the chunks of a text split into several are
\* overlapping segments: every window after the first starts before the
\* end of the window that precedes it.
C13_ChunksOverlap ==
    (splitPc = "done" /\ overlap > 0) =>
        \A k \in DOMAIN windows :
            k > 1 => windows[k].from < windows[k - 1].to

\* C29: when the text is longer than chunkSize, no chunk split returns is
\* longer than chunkSize characters.
C29_ChunkWithinChunkSize ==
    (splitPc = "done" /\ Len(text) > chunkSize) =>
        \A k \in DOMAIN chunks : Len(chunks[k]) <= chunkSize

(***************************************************************************)
(* Properties of the vector service.                                       *)
(***************************************************************************)
\* C14: a failure of the upsert or delete against the index propagates:
\* an addDocuments, deleteDocument or deleteChunks call whose client call
\* failed ends by throwing, never by returning a value.
C14_WriteFailuresPropagate ==
    (vsOut.op \in {"addDocuments", "deleteDocument", "deleteChunks"}
       /\ vsOut.failed = "client")
        => vsOut.kind = "threw"

\* C15 as stated: an error raised during a search is caught by the gateway
\* and converted: a search call whose embedding or client call failed ends
\* by returning the empty result list, and does not throw.
C15_SearchFailuresDegrade ==
    (vsOut.op = "search" /\ vsOut.failed # "none")
        => (vsOut.kind = "returned" /\ vsOut.value = {})

\* C15, amended: an error raised during a search is caught by the gateway,
\* logged and re-raised: a search call whose embedding or client call
\* failed ends by throwing a "Vector search failed" error to its caller,
\* and returns no result list.
C15_SearchFailuresRethrown ==
    (vsOut.op = "search" /\ vsOut.failed # "none")
        => (vsOut.kind = "threw" /\ vsOut.value = "Vector search failed")

\* A search on an initialized service ended after client.search failed.
C15_Witness ==
    /\ vsInitialized
    /\ vsCall = VsIdle
    /\ vsOut.op = "search"
    /\ vsOut.failed = "client"

\* C21: every hit a search returns scores at least the threshold the caller
\* supplied in that call.
C21_HitsAtOrAboveThreshold ==
    (vsOut.op = "search" /\ vsOut.kind = "returned") =>
        \A t \in vsOut.threshold : \A hit \in vsOut.value : hit.score >= t

\* A search with a threshold above the default returned a hit while a
\* point of the collection could score between the two.
C21_Witness ==
    /\ vsOut.op = "search"
    /\ vsOut.kind = "returned"
    /\ vsOut.threshold = {8}
    /\ vsOut.value # {}
    /\ Cardinality(vsPoints) > Cardinality(vsOut.value)

\* C22: the service never runs with an index whose vector size differs
\* from the dimension of the embedder: when startup has finished with
\* such a collection in the index, the service is not in use.
C22_NoMismatchedDimensions ==
    vsInitialized => vsCollection = EmbeddingDimension

(***************************************************************************)
(* Properties of the embedding service.                                    *)
(***************************************************************************)
\* The texts of the sub-batches before the one of text i.
EarlierSubBatches(i) == 1 .. (((i - 1) \div EmbedBatchSize) * EmbedBatchSize)

\* C16: embedBatch handles its sub-batches of 5 one after the other and
\* knows no partial success: a request is only issued once every request
\* of the earlier sub-batches was fulfilled; a call in which a request
\* failed ends by throwing and hands no embedding to the caller; a call
\* that returns hands back the embedding of every text, in order.
C16_BatchAllOrNothing ==
    /\ \A i \in ebHist.issued : EarlierSubBatches(i) \subseteq ebHist.fulfilled
    /\ (ebCall.pc = "idle" /\ ebOut # NoOutcome) =>
          /\ ebHist.failed # {} => (ebOut.kind = "threw" /\ ebOut.embeddings = << >>)
          /\ ebOut.kind = "returned" => ebOut.embeddings = InOrder(1 .. ebHist.n)
    /\ ebCall.pc = "awaitBatch" => ebHist.failed = {}

C16_Witness ==
    /\ ebCall.pc = "idle"
    /\ ebOut # NoOutcome
    /\ ebOut.kind = "threw"
    /\ ebHist.failed # {}
    /\ Cardinality(ebHist.fulfilled) >= EmbedBatchSize
    /\ ebEmbeddings # << >>

(***************************************************************************)
(* Properties of the generation service.                                   *)
(***************************************************************************)
\* A direct generateResponse call has ended by throwing after it had
\* selected a provider.
GenerateFailed ==
    /\ gsCall.pc = "idle"
    /\ gsOut # NoOutcome
    /\ gsOut.kind = "threw"
    /\ gsAttempts # << >>

\* C17 as stated: a generate call invokes exactly one provider; when that
\* provider's call fails no other provider is invoked and the caller gets
\* a generation-failed error that carries the provider and the model that
\* were attempted.
C17_FailureCarriesProviderAndModel ==
    /\ Len(gsAttempts) <= 1
    /\ gsCall.pc = "awaitProvider" => gsAttempts = <<gsCall.provider>>
    /\ GenerateFailed =>
          /\ gsOut.error.message = "Generation failed"
          /\ {"provider", "model"} \subseteq DOMAIN gsOut.error
          /\ gsOut.error.provider = gsAttempts[1]

\* C17, amended: a generate call invokes exactly one provider; when that
\* provider's call fails no other provider is invoked and the caller gets
\* a generation-failed error that carries the message of the cause and
\* nothing else; the provider and the model attempted are in the error log.
C17_OneProviderNoFailover ==
    /\ Len(gsAttempts) <= 1
    /\ gsCall.pc = "awaitProvider" => gsAttempts = <<gsCall.provider>>
    /\ GenerateFailed =>
          /\ gsOut.error.message = "Generation failed"
          /\ DOMAIN gsOut.error = {"message", "cause"}
          /\ gsLogged.provider = gsAttempts[1]
          /\ gsLogged.model # ""

\* The provider's call failed while other providers were available.
C17_Witness ==
    /\ GenerateFailed
    /\ gsOut.error.cause = "provider error"
    /\ Len(gsProviders) >= 2
    /\ gsAttempts = <<gsProviders[1]>>

\* The known substring of each provider (parseModelString).
KnownSubstring ==
    [openai |-> "gpt", anthropic |-> "claude", cohere |-> "command",
     google |-> "gemini"]

\* The providers whose known substring the model string contains.
ProvidersNamedBy(modelString) ==
    { p \in DOMAIN KnownSubstring : Includes(modelString, KnownSubstring[p]) }

\* C18: a generate call with "auto" goes to the first available provider;
\* one with an explicit model string goes to a provider whose known
\* substring the string contains, and to the first available provider when
\* it contains none.
C18_ProviderSelection ==
    [][ \A requested \in ModelStrings :
          (GsGenerateResponse(requested) /\ gsProviders # << >>) =>
             IF requested = "auto" \/ ProvidersNamedBy(requested) = {}
             THEN gsAttempts' = <<gsProviders[1]>>
             ELSE \E p \in ProvidersNamedBy(requested) : gsAttempts' = <<p>>
      ]_vars

\* A call with an explicit model string is waiting for the provider the
\* string names, which is not the first available one.
C18_Witness ==
    /\ gsCall.pc = "awaitProvider"
    /\ gsCall.by = "caller"
    /\ gsCall.requested = "claude-3-5-sonnet-20241022"
    /\ gsCall.provider = "anthropic"
    /\ gsProviders[1] # "anthropic"

\* C19: a finished health check has sent one probe of ProbeMaxTokens
\* tokens to each available provider, and the status it reports for a
\* provider is true exactly when the probe sent to that provider came
\* back with non-empty content.
C19_HealthProbesEachProvider ==
    (gsCall.pc = "idle" /\ gsOut # NoOutcome /\ gsOut.kind = "health") =>
        \A k \in 1 .. Len(gsProviders) :
            LET p == gsProviders[k]
                sent == { j \in DOMAIN gsProbes : gsProbes[j].to = p }
            IN  /\ Cardinality(sent) = 1
                /\ \A j \in sent :
                      /\ gsProbes[j].max_tokens = ProbeMaxTokens
                      /\ gsOut.healthStatus[p] = gsProbes[j].nonEmpty

\* C26: the provider a generate call dispatches to is one of the
\* available providers.
C26_DispatchToAvailableProvider ==
    \A k \in DOMAIN gsAttempts : gsAttempts[k] \in Range(gsProviders)

(***************************************************************************)
(* Properties of the messages handed to the generation service.            *)
(***************************************************************************)
\* Invocation i calls generationService.generateResponse in this step.
HandsOver(i) == inv[i].pc # "awaitGenerate" /\ inv'[i].pc = "awaitGenerate"

\* C20: the messages handed to the generation service are the system
\* message, the most recent 6 messages of the session and the user message
\* of the request; after the system message the roles alternate, and the
\* request's user message is in the list once, at its end.
C20_MessageList ==
    [][ \A i \in Invocations : HandsOver(i) =>
          LET history == heap'[inv'[i].session].history
              query   == inv'[i].req
              ms      == GenerationMessages(query,
                             prepareContext(history, inv'[i].searchResults))
              n       == Len(ms)
          IN  /\ ms[1] = SystemMessage
              /\ SubSeq(ms, 2, n - 1) = SliceLast(history, ContextWindow)
              /\ ms[n] = UserMessage(query)
              /\ \A k \in 2 .. n - 1 : ms[k].role # ms[k + 1].role
              /\ \A k \in 1 .. n - 1 : ms[k] # UserMessage(query)
      ]_vars

(***************************************************************************)
(* Properties of BatchQueue.                                               *)
(***************************************************************************)
\* The batches in which item i was passed to processFn.
BatchesWith(i) == { k \in DOMAIN bqPassed : \E p \in DOMAIN bqPassed[k] : bqPassed[k][p] = i }

\* C23: every item added to the queue is eventually passed to processFn,
\* and no item is passed twice or in a batch of more than batchSize items.
C23_EveryItemProcessedOnce ==
    /\ [](\A k \in DOMAIN bqPassed : Len(bqPassed[k]) <= bqBatchSize)
    /\ [](\A i \in 1 .. MaxItems : Cardinality(BatchesWith(i)) <= 1)
    /\ \A i \in 1 .. MaxItems : (bqAdded >= i) ~> (BatchesWith(i) # {})

(***************************************************************************)
(* Properties of useDebouncedCallback.                                     *)
(***************************************************************************)
\* C24: in a burst of invocations that follow each other within the
\* delay, the wrapped callback only runs one delay after the last
\* invocation, with the arguments of that invocation, and once the burst
\* is over it has run exactly once.
C24_DebounceRunsLastOnce ==
    /\ Len(dbCalls) <= 1
    /\ \A k \in DOMAIN dbCalls :
          /\ dbCalls[k].args = Len(dbInvoked)
          /\ dbCalls[k].at = dbInvoked[Len(dbInvoked)] + DebounceDelay
    /\ (dbInvoked # << >> /\ dbTimers = {}) => Len(dbCalls) = 1

(***************************************************************************)
(* Properties of memoize.                                                  *)
(***************************************************************************)
\* The keys the cache holds.
Cached == { mcCache[p] : p \in DOMAIN mcCache }

\* The keys inserted after key k was inserted last.
InsertedAfter(k) == { j \in MemoKeys : mcInsertedAt[j] > mcInsertedAt[k] }

\* C25: after every call the cache holds at most maxSize entries; the key
\* a call evicts was inserted before every key that stays, so the cached
\* keys are the maxSize keys inserted last; a call runs fn exactly when it
\* inserts its key, that is when the key was not cached: a key is computed
\* again after its eviction and not while it is cached.
C25_BoundedFifoCache ==
    /\ Len(mcCache) <= mcMaxSize
    /\ mcLast.evicted # 0 =>
          /\ mcLast.computed
          /\ mcLast.evicted \notin Cached
          /\ \A k \in Cached : mcInsertedAt[mcLast.evicted] < mcInsertedAt[k]
    /\ mcLast.key # 0 =>
          /\ mcLast.computed <=> mcInsertedAt[mcLast.key] = mcCalls
          /\ mcLast.key \in Cached \/ mcLast.evicted = mcLast.key
    /\ \A k \in MemoKeys :
          k \in Cached <=> /\ mcInsertedAt[k] > 0
                           /\ Cardinality(InsertedAfter(k)) < mcMaxSize
    /\ Cardinality(Cached) = Len(mcCache)

\* A key that had been evicted was called again and computed again, and
\* that call evicted the oldest key in turn.
C25_Witness ==
    /\ mcMaxSize = MaxCacheSize
    /\ mcLast.computed
    /\ mcLast.evicted # 0
    /\ mcLast.evicted # mcLast.key
    /\ mcInsertedAt[mcLast.evicted] > 1
    /\ mcCalls > MaxCacheSize + 2

(***************************************************************************)
(* Properties of the upload route.                                         *)
(***************************************************************************)
\* C27: a job is completed only if the chunks of its document were stored
\* in the vector index.
C27_CompletedMeansStored ==
    \A j \in JobIds : upJob[j].status = "completed" => upStored[j]

\* C28: a job removed by a delete route is never in the store again, and
\* so never in the document list.
C28_DeletedJobStaysRemoved ==
    \A j \in upDeleted : j \notin upStore /\ j \notin DocumentList

(***************************************************************************)
(* Properties of the prompt manager.                                       *)
(***************************************************************************)
\* C30: when handleToggleActive has finished, whether its requests
\* succeeded or one of them failed, exactly one prompt is active.
C30_ExactlyOneActive ==
    (ptCall.pc = "idle" /\ ptDone # "none") => Cardinality(ptServer) = 1

=============================================================================
